---- MODULE Spec2Model ----
(***************************************************************************)
(* Model of the JWT authentication core of the Buffalo backend:            *)
(*   actions/auth.go   GenerateJWT, ValidateJWT, RegisterHandler,          *)
(*                     LoginHandler, MeHandler, RefreshTokenHandler,       *)
(*                     AuthMiddleware, AdminMiddleware                     *)
(*   actions/app.go    App(), the routing table                            *)
(*   actions/health.go the readiness probe                                 *)
(*   models/user.go    User, its validation and its pop callbacks          *)
(*                                                                         *)
(* Strings the code inspects character by character (emails, names,        *)
(* passwords) are sequences of one-character strings.  An Authorization    *)
(* header is a sequence of chunks: a chunk is one space, one word without  *)
(* spaces, or one compact JWT.  Time is counted in ticks; a second has     *)
(* TicksPerSec ticks, so that the truncation of a time.Time to a JWT       *)
(* NumericDate is visible.                                                 *)
(*                                                                         *)
(* A bcrypt hash is the record of the key it was computed from: the first  *)
(* BcryptMaxLen bytes of the password.  The salt is left out, so two       *)
(* hashes are equal exactly when every password validates against both or  *)
(* against neither.  bcrypt.GenerateFromPassword is the one of             *)
(* golang.org/x/crypto from v0.5.0 on, which refuses longer passwords.     *)
(*                                                                         *)
(* Six specifications share the state and the operators:                   *)
(*   Spec       every route, with well-formed and ill-formed requests      *)
(*   SessSpec   one client holding several tokens of one identity          *)
(*   AdminSpec  the /api/v1/admin group, users of both roles               *)
(*   StoreSpec  overlapping ValidateAndCreate / ValidateAndUpdate calls    *)
(*   ModelSpec  users created and updated through pop, and registrations   *)
(*   ProcSpec   concurrent callers of App(), the environment, the probe    *)
(***************************************************************************)
EXTENDS Integers, Sequences, FiniteSets, TLC

\* ------------------------------------------------------------------ bounds
TicksPerSec == 2
MaxOffset == 3
MaxDays == 1
MaxUsers == 1
MaxTokens == 1
MaxClients == 2

\* --------------------------------------------------------- program constants
RoleUser == "user"
RoleAdmin == "admin"
Issuer == "production-ready-go-backend"
jwtSecretKey == "JWT_SECRET"
TokenTTLSeconds == 24 * 3600
TTLTicks == TokenTTLSeconds * TicksPerSec
StatusOK == 200
StatusCreated == 201
StatusBadRequest == 400
StatusUnauthorized == 401
StatusForbidden == 403
StatusInternalServerError == 500
StatusServiceUnavailable == 503
NameMin == 2
NameMax == 100
PasswordMin == 8
PasswordMax == 100
BcryptMaxLen == 72

\* ------------------------------------------------------------------ strings
Lower == {"a", "b", "c", "x"}
Upper == {"A", "B", "C", "X"}
Digits == {"1", "2"}
Letters == Lower \cup Upper

\* strings.ToLower, one character
ToLowerChar(c) ==
    CASE c = "A" -> "a"
      [] c = "B" -> "b"
      [] c = "C" -> "c"
      [] c = "X" -> "x"
      [] OTHER -> c

\* strings.ToLower
ToLower(s) == [i \in 1..Len(s) |-> ToLowerChar(s[i])]

RECURSIVE TrimLeft(_)
TrimLeft(s) == IF s # <<>> /\ Head(s) = " " THEN TrimLeft(Tail(s)) ELSE s

RECURSIVE TrimRight(_)
TrimRight(s) ==
    IF s # <<>> /\ s[Len(s)] = " " THEN TrimRight(SubSeq(s, 1, Len(s) - 1)) ELSE s

\* strings.TrimSpace
TrimSpace(s) == TrimRight(TrimLeft(s))

AllIn(s, chars) == \A i \in 1..Len(s) : s[i] \in chars

\* a string of n copies of c
Rep(c, n) == [i \in 1..n |-> c]

\* ------------------------------------------------------------- identifiers
\* uuid.UUID.String: the canonical text of an identifier
UUIDString(id) == [kind |-> "uuid", v |-> id]

\* text that is not the canonical form of any identifier
NotAUUID == [kind |-> "text", v |-> 0]

\* uuid.FromString: the identifier, or an error
FromString(s) ==
    IF s.kind = "uuid" /\ s.v \in Nat \ {0}
    THEN [err |-> FALSE, id |-> s.v]
    ELSE [err |-> TRUE, id |-> 0]

\* uuid.Nil, the zero value of User.ID
NilID == 0

\* -------------------------------------------------------------- models.User
\* bcrypt works on the first 72 bytes of a password
BcryptKey(password) ==
    IF Len(password) > BcryptMaxLen THEN SubSeq(password, 1, BcryptMaxLen) ELSE password

\* the digest bcrypt computes: a one-way function of the key, so that two
\* digests agree exactly when their keys do
BcryptHash(password) == [alg |-> "bcrypt", of |-> BcryptKey(password)]

\* bcrypt.GenerateFromPassword returns ErrPasswordTooLong
PasswordTooLong(password) == Len(password) > BcryptMaxLen

\* the zero value of User.PasswordHash
NoHash == [alg |-> "", of |-> <<>>]

\* User.SetPassword: the user it leaves; on an error of the hashing the hash
\* is not touched
SetPassword(u, password) ==
    IF PasswordTooLong(password) THEN u
    ELSE [u EXCEPT !.PasswordHash = BcryptHash(password)]

\* User.ValidatePassword: bcrypt.CompareHashAndPassword returned nil, which
\* it does when the digest of the given password is the stored one
ValidatePassword(u, password) ==
    u.PasswordHash.alg = "bcrypt" /\ u.PasswordHash = BcryptHash(password)

\* IsAdmin taking any valid role for the admin role
IsAnyRole(u) == u.Role \in {RoleUser, RoleAdmin}

\* User.IsAdmin
IsAdmin(u) == u.Role = RoleAdmin

\* User.BeforeCreate
BeforeCreate(u) == IF u.Password # <<>> THEN SetPassword(u, u.Password) ELSE u

\* User.BeforeUpdate
BeforeUpdate(u) == IF u.Password # <<>> THEN SetPassword(u, u.Password) ELSE u

\* BeforeCreate / BeforeUpdate returning the error of SetPassword
BeforeSaveFails(u) == u.Password # <<>> /\ PasswordTooLong(u.Password)

\* ^[a-zA-Z0-9._%+-]+@[a-zA-Z0-9.-]+\.[a-zA-Z]{2,}$
LocalChars == Letters \cup Digits \cup {".", "_", "%", "+", "-"}
DomainChars == Letters \cup Digits \cup {".", "-"}
emailRegex(s) ==
    \E at \in 2..Len(s) : \E dot \in (at + 2)..(Len(s) - 2) :
        /\ s[at] = "@"
        /\ s[dot] = "."
        /\ AllIn(SubSeq(s, 1, at - 1), LocalChars)
        /\ AllIn(SubSeq(s, at + 1, dot - 1), DomainChars)
        /\ AllIn(SubSeq(s, dot + 1, Len(s)), Letters)

\* validators.EmailIsPresent: something, an @, something, a dot, something
EmailIsPresent(s) ==
    \E at \in 2..Len(s) : \E dot \in (at + 2)..(Len(s) - 1) :
        s[at] = "@" /\ s[dot] = "."

\* Validate setting the default role and leaving name and email as given
NormalizeRoleOnly(u) ==
    [u EXCEPT !.Role = IF u.Role = "" THEN RoleUser ELSE u.Role]

\* Validate trimming and lowercasing without setting the default role
NormalizeNoRoleDefault(u) ==
    [u EXCEPT !.Email = ToLower(TrimSpace(u.Email)),
              !.Name = TrimSpace(u.Name)]

\* the normalisation User.Validate performs on the receiver
Normalize(u) ==
    [u EXCEPT !.Email = ToLower(TrimSpace(u.Email)),
              !.Name = TrimSpace(u.Name),
              !.Role = IF u.Role = "" THEN RoleUser ELSE u.Role]

\* validate.Errors.Add(key, msg): one message under one key
VErr(key, msg) == [key |-> key, msg |-> msg]

\* User.Validate: the validation errors, for a normalised user
Validate(u) ==
    (IF TrimSpace(u.Name) = <<>>
     THEN {VErr("name", "Name can not be blank.")} ELSE {})
    \cup (IF Len(u.Name) < NameMin \/ Len(u.Name) > NameMax
          THEN {VErr("name", "Name not in range(2, 100)")} ELSE {})
    \cup (IF TrimSpace(u.Email) = <<>>
          THEN {VErr("email", "Email can not be blank.")} ELSE {})
    \cup (IF ~EmailIsPresent(u.Email)
          THEN {VErr("email", "Email does not match the email format.")} ELSE {})
    \cup (IF u.Role # "" /\ u.Role # RoleUser /\ u.Role # RoleAdmin
          THEN {VErr("role", "Role must be either 'user' or 'admin'")} ELSE {})
    \cup (IF ~emailRegex(u.Email)
          THEN {VErr("email", "Email format is invalid")} ELSE {})

\* tx.Where("email = ?", e).First(...): the ids of the rows with that email
WhereEmail(db, e) == {i \in DOMAIN db : db[i].Email = e}

\* the password rules shared by ValidateCreate and ValidateUpdate
PasswordErrors(u) ==
    (IF Len(u.Password) < PasswordMin
     THEN {VErr("password", "Password must be at least 8 characters long")} ELSE {})
    \cup (IF Len(u.Password) > PasswordMax
          THEN {VErr("password", "Password must be less than 100 characters")} ELSE {})
    \cup (IF u.PasswordConfirm # <<>> /\ u.Password # u.PasswordConfirm
          THEN {VErr("password_confirm", "Password confirmation does not match")}
          ELSE {})

\* ValidateCreate without its look-up of the email
ValidateCreateNoLookup(u, db, dbOk) ==
    IF u.Password = <<>>
    THEN {VErr("password", "Password is required")} ELSE PasswordErrors(u)

\* User.ValidateCreate; dbOk is whether the store answers the query
ValidateCreate(u, db, dbOk) ==
    (IF u.Password = <<>>
     THEN {VErr("password", "Password is required")} ELSE PasswordErrors(u))
    \cup (IF dbOk /\ WhereEmail(db, ToLower(u.Email)) # {}
          THEN {VErr("email", "Email is already taken")} ELSE {})

\* User.ValidateUpdate
ValidateUpdate(u, db, dbOk) ==
    (IF u.Password = <<>> THEN {} ELSE PasswordErrors(u))
    \cup (IF dbOk /\ (WhereEmail(db, ToLower(u.Email)) \ {u.ID}) # {}
          THEN {VErr("email", "Email is already taken")} ELSE {})

\* the columns of a row of the users table
Row(u) ==
    [ID |-> u.ID, Name |-> u.Name, Email |-> u.Email,
     PasswordHash |-> u.PasswordHash, Role |-> u.Role]

\* a User value as the handlers build it
NewUser(name, email, password, confirm, role) ==
    [ID |-> NilID, Name |-> name, Email |-> email, PasswordHash |-> NoHash,
     Role |-> role, Password |-> password, PasswordConfirm |-> confirm]

\* a row read back from the table: the virtual fields are empty
Loaded(row) ==
    [ID |-> row.ID, Name |-> row.Name, Email |-> row.Email,
     PasswordHash |-> row.PasswordHash, Role |-> row.Role,
     Password |-> <<>>, PasswordConfirm |-> <<>>]

\* a users table without the unique index
NoUniqueIndex(db, row) == TRUE

\* the unique index on users.email
UniqueIndexOk(db, row) == WhereEmail(db, row.Email) \ {row.ID} = {}

\* pop's ValidateAndCreate: Validate, ValidateCreate, BeforeCreate, INSERT.
\* newId is the fresh uuid pop gives the row.
ValidateAndCreate(u0, db, newId, dbOk) ==
    LET u == Normalize(u0)
        verrs == Validate(u) \cup ValidateCreate(u, db, dbOk)
        row == [BeforeCreate(u) EXCEPT !.ID = newId]
    IN  IF verrs # {}
        THEN [verrs |-> verrs, err |-> FALSE, user |-> u, db |-> db]
        ELSE IF ~dbOk \/ BeforeSaveFails(u) \/ ~UniqueIndexOk(db, row)
        THEN [verrs |-> {}, err |-> TRUE, user |-> row, db |-> db]
        ELSE [verrs |-> {}, err |-> FALSE, user |-> row,
              db |-> [i \in DOMAIN db \cup {newId} |->
                        IF i = newId THEN Row(row) ELSE db[i]]]

\* pop's ValidateAndUpdate: Validate, ValidateUpdate, BeforeUpdate, UPDATE of
\* the row with the id of u0
ValidateAndUpdate(u0, db, dbOk) ==
    LET u == Normalize(u0)
        verrs == Validate(u) \cup ValidateUpdate(u, db, dbOk)
        row == BeforeUpdate(u)
    IN  IF verrs # {}
        THEN [verrs |-> verrs, err |-> FALSE, user |-> u, db |-> db]
        ELSE IF ~dbOk \/ BeforeSaveFails(u) \/ ~UniqueIndexOk(db, row)
        THEN [verrs |-> {}, err |-> TRUE, user |-> row, db |-> db]
        ELSE [verrs |-> {}, err |-> FALSE, user |-> row,
              db |-> [i \in DOMAIN db |-> IF i = row.ID THEN Row(row) ELSE db[i]]]

\* ---------------------------------------------------------------- the clock
\* jwt.NewNumericDate: a time truncated to whole seconds (jwt.TimePrecision)
NewNumericDate(t) == t \div TicksPerSec

\* the time.Time of a NumericDate
NumericTime(n) == n * TicksPerSec

\* --------------------------------------------------------------- JWT tokens
\* JWTClaims
NoClaims ==
    [UserID |-> NotAUUID, Email |-> <<>>, Role |-> "", ExpiresAt |-> 0,
     IssuedAt |-> 0, NotBefore |-> 0, Issuer |-> "", Subject |-> NotAUUID]

\* the HMAC of a payload under a key: equal exactly for equal key, algorithm
\* and payload
HMAC(alg, key, payload) == [alg |-> alg, key |-> key, payload |-> payload]

\* jwt.NewWithClaims(jwt.SigningMethodHS256, claims) then token.SignedString(key):
\* the compact token, header.payload.signature
SignedString(claims, key) ==
    [alg |-> "HS256", payload |-> claims, sig |-> HMAC("HS256", key, claims)]

\* GenerateJWT filling the email claim from the wrong field
GenerateJWTWrongEmail(user, t1, t2) ==
    LET expirationTime == t1 + TTLTicks
        now == t2
        claims ==
            [UserID |-> UUIDString(user.ID),
             Email |-> user.Name,
             Role |-> user.Role,
             ExpiresAt |-> NewNumericDate(expirationTime),
             IssuedAt |-> NewNumericDate(now),
             NotBefore |-> NewNumericDate(now),
             Issuer |-> Issuer,
             Subject |-> UUIDString(user.ID)]
    IN  [token |-> SignedString(claims, jwtSecretKey), expiresAt |-> expirationTime]

\* GenerateJWT. t1 and t2 are the values of its two time.Now() calls.
GenerateJWT(user, t1, t2) ==
    LET expirationTime == t1 + TTLTicks
        now == t2
        claims ==
            [UserID |-> UUIDString(user.ID),
             Email |-> user.Email,
             Role |-> user.Role,
             ExpiresAt |-> NewNumericDate(expirationTime),
             IssuedAt |-> NewNumericDate(now),
             NotBefore |-> NewNumericDate(now),
             Issuer |-> Issuer,
             Subject |-> UUIDString(user.ID)]
    IN  [token |-> SignedString(claims, jwtSecretKey), expiresAt |-> expirationTime]

\* ParseWithClaims as jwt.ParseUnverified would do it: the signature is not
\* looked at
ParseUnverified(tok, now) ==
    IF ~(now < NumericTime(tok.payload.ExpiresAt))
    THEN "token is expired"
    ELSE IF now < NumericTime(tok.payload.NotBefore)
    THEN "token is not valid yet"
    ELSE ""

\* ParseWithClaims with expiry validation switched off
\* (jwt.WithoutClaimsValidation)
ParseWithoutClaimsValidation(tok, now) ==
    IF ~(tok.alg \in {"HS256", "HS384", "HS512"}
         /\ tok.sig = HMAC(tok.alg, jwtSecretKey, tok.payload))
    THEN "signature is invalid"
    ELSE ""

\* ParseWithClaims taking the unsecured "none" algorithm as verified
ParseAllowingNone(tok, now) ==
    IF ~(\/ tok.alg = "none"
         \/ tok.alg \in {"HS256", "HS384", "HS512"}
            /\ tok.sig = HMAC(tok.alg, jwtSecretKey, tok.payload))
    THEN "signature is invalid"
    ELSE IF ~(now < NumericTime(tok.payload.ExpiresAt))
    THEN "token is expired"
    ELSE IF now < NumericTime(tok.payload.NotBefore)
    THEN "token is not valid yet"
    ELSE ""

\* ParseWithClaims with a maximum age: a token is refused from the second
\* after the one it was issued in
ParseWithMaxAge(tok, now) ==
    IF ~(tok.alg \in {"HS256", "HS384", "HS512"}
         /\ tok.sig = HMAC(tok.alg, jwtSecretKey, tok.payload))
    THEN "signature is invalid"
    ELSE IF ~(now < NumericTime(tok.payload.ExpiresAt))
    THEN "token is expired"
    ELSE IF now < NumericTime(tok.payload.NotBefore)
    THEN "token is not valid yet"
    ELSE IF now >= NumericTime(tok.payload.IssuedAt + 1)
    THEN "token is too old"
    ELSE ""

\* the HMAC family jwt-go verifies with a []byte key
HMACAlgs == {"HS256", "HS384", "HS512"}

\* jwt.ParseWithClaims with the key function of ValidateJWT, on a compact
\* token: the signature under jwtSecretKey, then exp and nbf against now
ParseWithClaims(tok, now) ==
    IF ~(tok.alg \in HMACAlgs /\ tok.sig = HMAC(tok.alg, jwtSecretKey, tok.payload))
    THEN "signature is invalid"
    ELSE IF ~(now < NumericTime(tok.payload.ExpiresAt))
    THEN "token is expired"
    ELSE IF now < NumericTime(tok.payload.NotBefore)
    THEN "token is not valid yet"
    ELSE ""

\* ----------------------------------------------------- Authorization header
\* chunks of a header value: a space, a word without spaces, a compact JWT
SP == [k |-> "sp", w |-> " ", t |-> SignedString(NoClaims, "")]
Word(w) == [k |-> "word", w |-> w, t |-> SignedString(NoClaims, "")]
Tok(t) == [k |-> "tok", w |-> "", t |-> t]

RECURSIVE Split(_)
\* strings.Split(s, " ")
Split(s) ==
    IF \A i \in 1..Len(s) : s[i] # SP
    THEN <<s>>
    ELSE LET i == CHOOSE j \in 1..Len(s) :
                    s[j] = SP /\ \A k \in 1..(j - 1) : s[k] # SP
         IN  <<SubSeq(s, 1, i - 1)>> \o Split(SubSeq(s, i + 1, Len(s)))

\* ValidateJWT dropping the error of the parse and handing the claims back
ValidateJWTIgnoreErr(tokenString, now) ==
    IF Len(tokenString) # 1 \/ tokenString[1].k # "tok"
    THEN [err |-> "", claims |-> NoClaims]
    ELSE [err |-> "", claims |-> tokenString[1].t.payload]

\* ValidateJWT: the claims, or an error
ValidateJWT(tokenString, now) ==
    IF Len(tokenString) # 1 \/ tokenString[1].k # "tok"
    THEN [err |-> "token is malformed", claims |-> NoClaims]
    ELSE LET err == ParseWithClaims(tokenString[1].t, now)
         IN  IF err # ""
             THEN [err |-> err, claims |-> NoClaims]
             ELSE [err |-> "", claims |-> tokenString[1].t.payload]

\* ------------------------------------------------------------ HTTP plumbing
\* a request's headers: whether Authorization is set, and its value
NoAuth == [present |-> FALSE, value |-> <<>>]
Auth(v) == [present |-> TRUE, value |-> v]

\* c.Request().Header.Get("Authorization")
HeaderGet(headers) == IF headers.present THEN headers.value ELSE <<>>

\* the JSON rendering of a models.User (json:"-" fields left out)
NoView == [id |-> NilID, name |-> <<>>, email |-> <<>>, role |-> ""]
\* the User struct with its password hash tagged for output
UserTagsWithHash ==
    [ID |-> "id", Name |-> "name", Email |-> "email", PasswordHash |-> "password_hash",
     Role |-> "role", Password |-> "-", PasswordConfirm |-> "-"]

\* the json tags of the fields of User; "-" keeps a field out of the output
UserTags ==
    [ID |-> "id", Name |-> "name", Email |-> "email", PasswordHash |-> "-",
     Role |-> "role", Password |-> "-", PasswordConfirm |-> "-"]

\* json.Marshal of a struct: one key per tagged field
Marshal(v, tags) ==
    [k \in {tags[f] : f \in DOMAIN v} \ {"-"} |->
        v[CHOOSE f \in DOMAIN v : tags[f] = k]]

\* r.JSON(user), json.Marshal(user)
UserJSON(u) == Marshal(u, UserTags)

\* User.String: json.Marshal of a copy holding the public fields
UserString(u) ==
    Marshal([ID |-> u.ID, Name |-> u.Name, Email |-> u.Email, Role |-> u.Role],
            [ID |-> "id", Name |-> "name", Email |-> "email", Role |-> "role"])

\* Users.String: json.Marshal of the slice
UsersString(us) == [i \in DOMAIN us |-> UserJSON(us[i])]

NoToken == SignedString(NoClaims, "")

\* r.JSON(ErrorResponse{Error: msg, Details: details})
ErrorResponse(msg, details) ==
    [kind |-> "error", error |-> msg, details |-> details,
     token |-> NoToken, user |-> NoView, expires_at |-> 0]

\* r.JSON(AuthResponse{Token, User, ExpiresAt})
AuthResponse(token, user, expiresAt) ==
    [kind |-> "auth", error |-> "", details |-> {},
     token |-> token, user |-> UserJSON(user), expires_at |-> expiresAt]

\* r.JSON(user)
UserResponse(user) ==
    [kind |-> "user", error |-> "", details |-> {},
     token |-> NoToken, user |-> UserJSON(user), expires_at |-> 0]

\* the request context: the values under "currentUser" and "currentUserID"
NoUser == Loaded([ID |-> NilID, Name |-> <<>>, Email |-> <<>>,
                  PasswordHash |-> NoHash, Role |-> ""])
EmptyContext == [hasUser |-> FALSE, currentUser |-> NoUser,
                 hasUserID |-> FALSE, currentUserID |-> NilID]

\* --------------------------------------------------------------- middleware
\* Find with its error dropped: the zero User stands in for a missing row
FindIgnoreErr(db, userID, dbOk) ==
    IF dbOk /\ userID \in DOMAIN db
    THEN [err |-> FALSE, user |-> Loaded(db[userID])]
    ELSE [err |-> FALSE, user |-> NoUser]

\* models.DB.Find(user, userID): the row, or an error (no such row, or the
\* store failing)
Find(db, userID, dbOk) ==
    IF dbOk /\ userID \in DOMAIN db
    THEN [err |-> FALSE, user |-> Loaded(db[userID])]
    ELSE [err |-> TRUE, user |-> NoUser]

\* Reject without the return statement: the response is written and the chain
\* goes on
RejectNoReturn(status, msg, checks) ==
    [next |-> TRUE, status |-> status, body |-> ErrorResponse(msg, {}),
     ctx |-> EmptyContext, checks |-> checks]

\* a middleware answering itself, without calling next
\* (return c.Render(status, r.JSON(ErrorResponse{Error: msg})))
Reject(status, msg, checks) ==
    [next |-> FALSE, status |-> status, body |-> ErrorResponse(msg, {}),
     ctx |-> EmptyContext, checks |-> checks]

\* the presence check testing for something an absent header never is
AuthHeaderMissingNever(authHeader) == FALSE

\* the format check looking at the first two parts only
MalformedAuthHeaderPrefix(tokenParts) ==
    Len(tokenParts) < 2 \/ tokenParts[1] # <<Word("Bearer")>>

\* authHeader == ""
AuthHeaderMissing(authHeader) == authHeader = <<>>

\* len(tokenParts) != 2 || tokenParts[0] != "Bearer"
MalformedAuthHeader(tokenParts) ==
    Len(tokenParts) # 2 \/ tokenParts[1] # <<Word("Bearer")>>

\* AuthMiddleware looking the user up before it verifies the token
AuthMiddlewareLookupFirst(headers, now, db, dbOk) ==
    LET authHeader == HeaderGet(headers)
        tokenParts == Split(authHeader)
    IN
    IF authHeader = <<>>
    THEN Reject(StatusUnauthorized, "Authorization header required", <<"header">>)
    ELSE IF Len(tokenParts) # 2 \/ tokenParts[1] # <<Word("Bearer")>>
    THEN Reject(StatusUnauthorized, "Invalid authorization header format",
                <<"header", "format">>)
    ELSE IF Len(tokenParts[2]) # 1 \/ tokenParts[2][1].k # "tok"
    THEN Reject(StatusUnauthorized, "Invalid token", <<"header", "format", "decode">>)
    ELSE LET p == FromString(tokenParts[2][1].t.payload.UserID) IN
    IF p.err
    THEN Reject(StatusUnauthorized, "Invalid user ID in token",
                <<"header", "format", "subject">>)
    ELSE LET f == Find(db, p.id, dbOk) IN
    IF f.err
    THEN Reject(StatusUnauthorized, "User not found",
                <<"header", "format", "subject", "lookup">>)
    ELSE IF ValidateJWT(tokenParts[2], now).err # ""
    THEN Reject(StatusUnauthorized, "Invalid token",
                <<"header", "format", "subject", "lookup", "decode">>)
    ELSE [next |-> TRUE, status |-> 0, body |-> ErrorResponse("", {}),
          ctx |-> [hasUser |-> TRUE, currentUser |-> f.user,
                   hasUserID |-> TRUE, currentUserID |-> p.id],
          checks |-> <<"header", "format", "subject", "lookup", "decode">>]

\* AuthMiddleware taking the role and the email of the user it binds from the
\* claims of the token
AuthMiddlewareFromClaims(headers, now, db, dbOk) ==
    LET authHeader == HeaderGet(headers)
        tokenParts == Split(authHeader)
    IN
    IF AuthHeaderMissing(authHeader)
    THEN Reject(StatusUnauthorized, "Authorization header required", <<"header">>)
    ELSE IF MalformedAuthHeader(tokenParts)
    THEN Reject(StatusUnauthorized, "Invalid authorization header format",
                <<"header", "format">>)
    ELSE LET v == ValidateJWT(tokenParts[2], now) IN
    IF v.err # ""
    THEN Reject(StatusUnauthorized, "Invalid token", <<"header", "format", "decode">>)
    ELSE LET p == FromString(v.claims.UserID) IN
    IF p.err
    THEN Reject(StatusUnauthorized, "Invalid user ID in token",
                <<"header", "format", "decode", "subject">>)
    ELSE LET f == Find(db, p.id, dbOk) IN
    IF f.err
    THEN Reject(StatusUnauthorized, "User not found",
                <<"header", "format", "decode", "subject", "lookup">>)
    ELSE [next |-> TRUE, status |-> 0, body |-> ErrorResponse("", {}),
          ctx |-> [hasUser |-> TRUE,
                   currentUser |-> [f.user EXCEPT !.Role = v.claims.Role,
                                                  !.Email = v.claims.Email],
                   hasUserID |-> TRUE, currentUserID |-> p.id],
          checks |-> <<"header", "format", "decode", "subject", "lookup">>]

\* AuthMiddleware. checks lists the steps it ran, in order.
AuthMiddleware(headers, now, db, dbOk) ==
    LET authHeader == HeaderGet(headers)
        tokenParts == Split(authHeader)
    IN
    IF AuthHeaderMissing(authHeader)
    THEN Reject(StatusUnauthorized, "Authorization header required", <<"header">>)
    ELSE IF MalformedAuthHeader(tokenParts)
    THEN Reject(StatusUnauthorized, "Invalid authorization header format",
                <<"header", "format">>)
    ELSE LET v == ValidateJWT(tokenParts[2], now) IN
    IF v.err # ""
    THEN Reject(StatusUnauthorized, "Invalid token", <<"header", "format", "decode">>)
    ELSE LET p == FromString(v.claims.UserID) IN
    IF p.err
    THEN Reject(StatusUnauthorized, "Invalid user ID in token",
                <<"header", "format", "decode", "subject">>)
    ELSE LET f == Find(db, p.id, dbOk) IN
    IF f.err
    THEN Reject(StatusUnauthorized, "User not found",
                <<"header", "format", "decode", "subject", "lookup">>)
    ELSE [next |-> TRUE, status |-> 0, body |-> ErrorResponse("", {}),
          ctx |-> [hasUser |-> TRUE, currentUser |-> f.user,
                   hasUserID |-> TRUE, currentUserID |-> p.id],
          checks |-> <<"header", "format", "decode", "subject", "lookup">>]

\* AdminMiddleware, on the context the earlier middleware left
AdminMiddleware(ctx) ==
    IF ~ctx.hasUser
    THEN Reject(StatusUnauthorized, "Unauthorized", <<>>)
    ELSE IF ~IsAdmin(ctx.currentUser)
    THEN Reject(StatusForbidden, "Admin access required", <<>>)
    ELSE [next |-> TRUE, status |-> 0, body |-> ErrorResponse("", {}),
          ctx |-> ctx, checks |-> <<>>]

\* ----------------------------------------------------------------- handlers
\* what a handler leaves: its response and the token it issued, if any
Outcome(status, body, issue) == [status |-> status, body |-> body, issue |-> issue]
NoIssue == {}

\* the record kept of a token handed to a client
Issuance(user, g) ==
    {[token |-> g.token, expiresAt |-> g.expiresAt, user |-> UserJSON(user)]}

\* MeHandler
MeHandler(ctx) ==
    IF ~ctx.hasUser
    THEN Outcome(StatusUnauthorized, ErrorResponse("Unauthorized", {}), NoIssue)
    ELSE Outcome(StatusOK, UserResponse(ctx.currentUser), NoIssue)

\* RefreshTokenHandler
RefreshTokenHandler(ctx, t1, t2) ==
    IF ~ctx.hasUser
    THEN Outcome(StatusUnauthorized, ErrorResponse("Unauthorized", {}), NoIssue)
    ELSE LET g == GenerateJWT(ctx.currentUser, t1, t2)
         IN  Outcome(StatusOK, AuthResponse(g.token, ctx.currentUser, g.expiresAt),
                     Issuance(ctx.currentUser, g))

\* LoginHandler handing out a token with its answer to a wrong password
LoginHandlerIssuingOnFailure(email, password, db, dbOk, t1, t2) ==
    LET ids == IF dbOk THEN WhereEmail(db, ToLower(email)) ELSE {}
    IN  IF ids = {}
        THEN Outcome(StatusUnauthorized, ErrorResponse("Invalid credentials", {}), NoIssue)
        ELSE LET user == Loaded(db[CHOOSE i \in ids : TRUE])
                 g == GenerateJWT(user, t1, t2)
             IN  IF ~ValidatePassword(user, password)
                 THEN Outcome(StatusUnauthorized,
                              ErrorResponse("Invalid credentials", {}),
                              Issuance(user, g))
                 ELSE Outcome(StatusOK, AuthResponse(g.token, user, g.expiresAt),
                              Issuance(user, g))

\* LoginHandler telling an unknown email from a wrong password
LoginHandlerNamingCause(email, password, db, dbOk, t1, t2) ==
    LET ids == IF dbOk THEN WhereEmail(db, ToLower(email)) ELSE {}
    IN  IF ids = {}
        THEN Outcome(StatusUnauthorized, ErrorResponse("User not found", {}), NoIssue)
        ELSE LET user == Loaded(db[CHOOSE i \in ids : TRUE])
             IN  IF ~ValidatePassword(user, password)
                 THEN Outcome(StatusUnauthorized,
                              ErrorResponse("Invalid credentials", {}), NoIssue)
                 ELSE LET g == GenerateJWT(user, t1, t2)
                      IN  Outcome(StatusOK, AuthResponse(g.token, user, g.expiresAt),
                                  Issuance(user, g))

\* LoginHandler
LoginHandler(email, password, db, dbOk, t1, t2) ==
    LET ids == IF dbOk THEN WhereEmail(db, ToLower(email)) ELSE {}
    IN  IF ids = {}
        THEN Outcome(StatusUnauthorized, ErrorResponse("Invalid credentials", {}), NoIssue)
        ELSE LET user == Loaded(db[CHOOSE i \in ids : TRUE])
             IN  IF ~ValidatePassword(user, password)
                 THEN Outcome(StatusUnauthorized,
                              ErrorResponse("Invalid credentials", {}), NoIssue)
                 ELSE LET g == GenerateJWT(user, t1, t2)
                      IN  Outcome(StatusOK, AuthResponse(g.token, user, g.expiresAt),
                                  Issuance(user, g))

\* RegisterHandler leaving the comparison of password and confirmation to
\* the model's validation
RegisterHandlerNoConfirmCheck(name, email, password, confirm, db, newId, dbOk, t1, t2) ==
    LET c == ValidateAndCreate(NewUser(name, email, password, confirm, RoleUser),
                               db, newId, dbOk)
    IN  IF c.err
        THEN [out |-> Outcome(StatusInternalServerError,
                              ErrorResponse("Failed to create user", {}), NoIssue),
              db |-> c.db]
        ELSE IF c.verrs # {}
        THEN [out |-> Outcome(StatusBadRequest,
                              ErrorResponse("Validation failed", c.verrs), NoIssue),
              db |-> c.db]
        ELSE LET g == GenerateJWT(c.user, t1, t2)
             IN  [out |-> Outcome(StatusCreated,
                                  AuthResponse(g.token, c.user, g.expiresAt),
                                  Issuance(c.user, g)),
                  db |-> c.db]

\* RegisterHandler: its outcome and the table it leaves
RegisterHandler(name, email, password, confirm, db, newId, dbOk, t1, t2) ==
    IF password # confirm
    THEN [out |-> Outcome(StatusBadRequest,
                          ErrorResponse("Password confirmation does not match", {}),
                          NoIssue),
          db |-> db]
    ELSE LET c == ValidateAndCreate(NewUser(name, email, password, confirm, RoleUser),
                                    db, newId, dbOk)
         IN  IF c.err
             THEN [out |-> Outcome(StatusInternalServerError,
                                   ErrorResponse("Failed to create user", {}), NoIssue),
                   db |-> c.db]
             ELSE IF c.verrs # {}
             THEN [out |-> Outcome(StatusBadRequest,
                                   ErrorResponse("Validation failed", c.verrs), NoIssue),
                   db |-> c.db]
             ELSE LET g == GenerateJWT(c.user, t1, t2)
                  IN  [out |-> Outcome(StatusCreated,
                                       AuthResponse(g.token, c.user, g.expiresAt),
                                       Issuance(c.user, g)),
                       db |-> c.db]

\* ------------------------------------------------------------------ routing
\* App(): the protected routes, the middleware in front of each, its handler
ProtectedRoutes == {"/auth/me", "/auth/refresh", "/api/v1/profile"}
HandlerOf(route) ==
    IF route = "/auth/refresh" THEN "RefreshTokenHandler" ELSE "MeHandler"

\* a request to a protected route, through AuthMiddleware to the handler
Serve(route, headers, db, dbOk, t1, t2) ==
    LET m == AuthMiddleware(headers, t1, db, dbOk)
        h == IF HandlerOf(route) = "RefreshTokenHandler"
             THEN RefreshTokenHandler(m.ctx, t1, t2)
             ELSE MeHandler(m.ctx)
    IN  IF ~m.next
        THEN [status |-> m.status, body |-> m.body, issue |-> NoIssue, ctx |-> m.ctx,
              checks |-> m.checks, handler |-> ""]
        ELSE [status |-> h.status, body |-> h.body, issue |-> h.issue, ctx |-> m.ctx,
              checks |-> m.checks, handler |-> HandlerOf(route)]

\* the middleware in front of the /api/v1/admin group, in the order of the
\* Use calls: protected.Use(AuthMiddleware), then adminOnly.Use(AdminMiddleware)
AdminChainReversed == <<"AdminMiddleware", "AuthMiddleware">>
AdminChain == <<"AuthMiddleware", "AdminMiddleware">>

\* the routes of the admin group, and what stands behind its middleware
AdminRoutes == {"/api/v1/admin/users", "/api/v1/admin/stats"}
AdminHandlerOf(route) ==
    IF route = "/api/v1/admin/users" THEN "AdminUsersListHandler" ELSE "AdminStatsHandler"

RECURSIVE RunChain(_, _, _, _, _, _)
\* buffalo running a middleware stack: each middleware either answers or calls
\* the next one with the context it leaves. ran lists those that ran.
RunChain(chain, ctx, headers, now, db, dbOk) ==
    IF chain = <<>>
    THEN [next |-> TRUE, status |-> 0, body |-> ErrorResponse("", {}), ctx |-> ctx,
          checks |-> <<>>, ran |-> <<>>]
    ELSE LET m == IF Head(chain) = "AuthMiddleware"
                  THEN AuthMiddleware(headers, now, db, dbOk)
                  ELSE AdminMiddleware(ctx)
         IN  IF ~m.next
             THEN [next |-> FALSE, status |-> m.status, body |-> m.body, ctx |-> ctx,
                   checks |-> m.checks, ran |-> <<Head(chain)>>]
             ELSE LET rest == RunChain(Tail(chain), m.ctx, headers, now, db, dbOk)
                  IN  [rest EXCEPT !.checks = m.checks \o @,
                                   !.ran = <<Head(chain)>> \o @]

\* a request to a route of the admin group
AdminServe(route, headers, db, dbOk, now) ==
    LET c == RunChain(AdminChain, EmptyContext, headers, now, db, dbOk)
    IN  IF ~c.next
        THEN [status |-> c.status, body |-> c.body, ctx |-> c.ctx, checks |-> c.checks,
              ran |-> c.ran, handler |-> ""]
        ELSE [status |-> StatusOK, body |-> ErrorResponse("", {}), ctx |-> c.ctx,
              checks |-> c.checks, ran |-> c.ran, handler |-> AdminHandlerOf(route)]

\* -------------------------------------------------------------------- state
VARIABLES
    db,      \* the users table: id -> row
    nextId,  \* how many uuids have been given out
    clock,   \* the wall clock, in ticks
    issued,  \* the tokens handed to clients, each with what was returned with it
    req,     \* the request being answered: what came in and what goes out
    calls,   \* the store calls in progress, one per client: between the
             \* validation of a ValidateAndCreate / ValidateAndUpdate and its write
    env,     \* the value of the environment variable SIMULATE_NOT_READY
    app,     \* the package variable app: a pointer to a buffalo.App, 0 for nil
    apps,    \* the buffalo.App values built so far; app points into them
    appOnce, \* the package variable appOnce, a sync.Once
    callers  \* the goroutines calling App(), and where each is in it

proc == <<env, app, apps, appOnce, callers>>

vars == <<db, nextId, clock, issued, req, calls, env, app, apps, appOnce, callers>>

\* the body of a readiness answer, before there is one
NoHealth == [status |-> "", services |-> [api |-> ""]]

\* a goroutine that has not called App()
IdleCaller == [pc |-> "idle", step |-> 0, ret |-> 0, returned |-> FALSE]

Idle ==
    [op |-> "idle", route |-> "", headers |-> NoAuth, form |-> <<>>, dbOk |-> TRUE,
     at |-> 0, status |-> 0, body |-> ErrorResponse("", {}), ctx |-> EmptyContext,
     checks |-> <<>>, handler |-> "", issue |-> NoIssue, ran |-> <<>>,
     role |-> "", err |-> FALSE, target |-> NilID, before |-> Row(NoUser),
     health |-> NoHealth]

\* the clients whose store calls may overlap
Clients == 1..MaxClients

\* a client with no call in progress. clean is a history flag: no UPDATE of
\* another call has been written since this call was validated.
IdleCall ==
    [pc |-> "idle", kind |-> "",
     given |-> [name |-> <<>>, email |-> <<>>, password |-> <<>>, confirm |-> <<>>],
     user |-> NoUser, status |-> 0, body |-> ErrorResponse("", {}), clean |-> TRUE]

Init ==
    /\ db = << >>
    /\ nextId = 0
    /\ clock = 0
    /\ issued = {}
    /\ req = Idle
    /\ calls = [c \in Clients |-> IdleCall]
    /\ env = ""
    /\ app = 0
    /\ apps = << >>
    /\ appOnce = [done |-> FALSE, m |-> 0]
    /\ callers = [c \in Clients |-> IdleCaller]

\* ------------------------------------------------------------------- inputs
NameOk == <<"a", "b">>
NamePadded == <<" ", "a", "b", " ">>
NameShort == <<"a">>
EmailA == <<"a", "@", "b", ".", "c", "c">>
EmailAUpper == <<"A", "@", "B", ".", "C", "C">>
EmailAPadded == <<" ", "a", "@", "b", ".", "c", "c", " ">>
EmailX == <<"x", "@", "b", ".", "c", "c">>
EmailBad == <<"a", ".", "b">>
PwGood == <<"p", "a", "s", "s", "w", "o", "r", "d">>
PwOther == <<"P", "a", "s", "s", "w", "o", "r", "d">>
PwShort == <<"p", "a", "s">>
PwLong == Rep("p", PasswordMax + 1)

Form(name, email, password, confirm) ==
    [name |-> name, email |-> email, password |-> password, confirm |-> confirm]

\* bodies of POST /auth/register
RegisterForms ==
    {Form(n, e, PwGood, PwGood) :
        n \in {NameOk, NamePadded}, e \in {EmailA, EmailAUpper, EmailAPadded, EmailX}}
    \cup {Form(NameShort, EmailA, PwGood, PwGood),
          Form(<<>>, EmailA, PwGood, PwGood),
          Form(NameOk, EmailBad, PwGood, PwGood),
          Form(NameOk, <<>>, PwGood, PwGood),
          Form(NameOk, EmailX, PwShort, PwShort),
          Form(NameOk, EmailX, PwLong, PwLong),
          Form(NameOk, EmailX, <<>>, <<>>),
          Form(NameOk, EmailX, PwGood, PwOther),
          Form(NameOk, EmailX, PwGood, <<>>)}

\* bodies of POST /auth/login
LoginForms ==
    {Form(<<>>, e, p, <<>>) :
        e \in {EmailA, EmailAUpper, EmailAPadded, EmailX}, p \in {PwGood, PwOther}}

\* what a client can put where the token goes: a token it was given, one it
\* altered without the key, one signed with another key, text that is no
\* token, and a token of another issuer of the same secret whose user_id is
\* no uuid
Altered(t) ==
    {[t EXCEPT !.payload.Role = RoleAdmin],
     [t EXCEPT !.payload.ExpiresAt = @ + TokenTTLSeconds],
     [t EXCEPT !.alg = "none"],
     SignedString(t.payload, "another-key")}
Foreign(now) ==
    SignedString([NoClaims EXCEPT !.ExpiresAt = NewNumericDate(now) + TokenTTLSeconds],
                 jwtSecretKey)
Garbage == Word("invalid-token")
Held == {e.token : e \in issued}
TokenChunks ==
    {Tok(t) : t \in Held \cup UNION {Altered(t) : t \in Held} \cup {Foreign(clock)}}
    \cup {Garbage}

\* Authorization headers
Bearer == Word("Bearer")
Headers ==
    {NoAuth, Auth(<<>>), Auth(<<Bearer>>), Auth(<<Bearer, SP>>)}
    \cup {Auth(<<Bearer, SP, c>>) : c \in TokenChunks}
    \cup UNION {{Auth(<<c>>),
                 Auth(<<Word("bearer"), SP, c>>),
                 Auth(<<Word("InvalidFormat"), SP, c>>),
                 Auth(<<Bearer, SP, SP, c>>),
                 Auth(<<Bearer, SP, c, SP, Word("x")>>)} :
                c \in {Tok(t) : t \in Held} \cup {Garbage}}

\* ------------------------------------------------------------------ actions
\* the clock may move d ticks now
MayElapse(d) == (clock % TTLTicks) + d <= MaxOffset

\* room to hand one more token to a client
Room(issue) == Cardinality(issued \cup issue) <= MaxTokens

\* time passes: one tick, or a day
Tick ==
    /\ req = Idle
    /\ \/ MayElapse(1) /\ clock' = clock + 1
       \/ clock \div TTLTicks < MaxDays /\ clock' = clock + TTLTicks
    /\ UNCHANGED <<db, nextId, issued, req, calls>>
    /\ UNCHANGED proc

\* POST /auth/register
Register ==
    /\ req = Idle
    /\ \E f \in RegisterForms, dbOk \in BOOLEAN, d \in {0, 1} :
        LET r == RegisterHandler(f.name, f.email, f.password, f.confirm,
                                 db, nextId + 1, dbOk, clock, clock + d)
        IN  /\ MayElapse(d)
            /\ r.out.issue = NoIssue => d = 0
            /\ ~dbOk => f.password = f.confirm
            /\ r.db # db => nextId < MaxUsers
            /\ Room(r.out.issue)
            /\ db' = r.db
            /\ nextId' = IF r.db = db THEN nextId ELSE nextId + 1
            /\ clock' = clock + d
            /\ issued' = issued \cup r.out.issue
            /\ req' = [Idle EXCEPT !.op = "register", !.route = "/auth/register",
                                   !.form = f, !.dbOk = dbOk, !.at = clock,
                                   !.status = r.out.status, !.body = r.out.body,
                                   !.handler = "RegisterHandler",
                                   !.issue = r.out.issue]
            /\ UNCHANGED calls
    /\ UNCHANGED proc

\* POST /auth/login
Login ==
    /\ req = Idle
    /\ \E f \in LoginForms, dbOk \in BOOLEAN, d \in {0, 1} :
        LET o == LoginHandler(f.email, f.password, db, dbOk, clock, clock + d)
        IN  /\ MayElapse(d)
            /\ o.issue = NoIssue => d = 0
            /\ Room(o.issue)
            /\ clock' = clock + d
            /\ issued' = issued \cup o.issue
            /\ req' = [Idle EXCEPT !.op = "login", !.route = "/auth/login",
                                   !.form = f, !.dbOk = dbOk, !.at = clock,
                                   !.status = o.status, !.body = o.body,
                                   !.handler = "LoginHandler", !.issue = o.issue]
            /\ UNCHANGED <<db, nextId, calls>>
    /\ UNCHANGED proc

\* a request to a protected route
Protected ==
    /\ req = Idle
    /\ \E route \in ProtectedRoutes, h \in Headers, dbOk \in BOOLEAN, d \in {0, 1} :
        LET s == Serve(route, h, db, dbOk, clock, clock + d)
        IN  /\ MayElapse(d)
            /\ s.issue = NoIssue => d = 0
            /\ ~dbOk => Len(s.checks) = 5
            /\ Room(s.issue)
            /\ clock' = clock + d
            /\ issued' = issued \cup s.issue
            /\ req' = [Idle EXCEPT !.op = "protected", !.route = route,
                                   !.headers = h, !.dbOk = dbOk, !.at = clock,
                                   !.status = s.status, !.body = s.body,
                                   !.ctx = s.ctx, !.checks = s.checks,
                                   !.handler = s.handler, !.issue = s.issue]
            /\ UNCHANGED <<db, nextId, calls>>
    /\ UNCHANGED proc

\* a row is deleted from the users table
DeleteUser ==
    /\ req = Idle
    /\ \E id \in DOMAIN db :
        db' = [i \in DOMAIN db \ {id} |-> db[i]]
    /\ UNCHANGED <<nextId, clock, issued, req, calls>>
    /\ UNCHANGED proc

\* the response is written; the request and its context are gone
Done ==
    /\ req # Idle
    /\ req' = Idle
    /\ UNCHANGED <<db, nextId, clock, issued, calls>>
    /\ UNCHANGED proc

Next == Tick \/ Register \/ Login \/ Protected \/ DeleteUser \/ Done

Spec == Init /\ [][Next]_vars

\* ------------------------------------------------- sessions of one client
\* One well-behaved client: it registers, logs in, and calls the protected
\* routes with the tokens it was given, and may hold one token more than
\* MaxTokens, so that an older and a newer token of one identity coexist.
SessForms == {Form(NameOk, EmailA, PwGood, PwGood)}
SessLogins == {Form(<<>>, EmailA, PwGood, <<>>), Form(<<>>, EmailA, PwOther, <<>>)}
SessHeaders == {Auth(<<Bearer, SP, Tok(t)>>) : t \in Held}
SessRoom(issue) == Cardinality(issued \cup issue) <= MaxTokens + 1

\* POST /auth/register, by the client
SessRegister ==
    /\ req = Idle
    /\ \E f \in SessForms, d \in {0, 1} :
        LET r == RegisterHandler(f.name, f.email, f.password, f.confirm,
                                 db, nextId + 1, TRUE, clock, clock + d)
        IN  /\ MayElapse(d)
            /\ r.out.issue = NoIssue => d = 0
            /\ r.db # db => nextId < MaxUsers
            /\ SessRoom(r.out.issue)
            /\ db' = r.db
            /\ nextId' = IF r.db = db THEN nextId ELSE nextId + 1
            /\ clock' = clock + d
            /\ issued' = issued \cup r.out.issue
            /\ req' = [Idle EXCEPT !.op = "register", !.route = "/auth/register",
                                   !.form = f, !.at = clock,
                                   !.status = r.out.status, !.body = r.out.body,
                                   !.handler = "RegisterHandler",
                                   !.issue = r.out.issue]
            /\ UNCHANGED calls
    /\ UNCHANGED proc

\* POST /auth/login, by the client
SessLogin ==
    /\ req = Idle
    /\ \E f \in SessLogins, d \in {0, 1} :
        LET o == LoginHandler(f.email, f.password, db, TRUE, clock, clock + d)
        IN  /\ MayElapse(d)
            /\ o.issue = NoIssue => d = 0
            /\ SessRoom(o.issue)
            /\ clock' = clock + d
            /\ issued' = issued \cup o.issue
            /\ req' = [Idle EXCEPT !.op = "login", !.route = "/auth/login",
                                   !.form = f, !.at = clock,
                                   !.status = o.status, !.body = o.body,
                                   !.handler = "LoginHandler", !.issue = o.issue]
            /\ UNCHANGED <<db, nextId, calls>>
    /\ UNCHANGED proc

\* a request of the client to a protected route, with a token it holds
SessProtected ==
    /\ req = Idle
    /\ \E route \in ProtectedRoutes, h \in SessHeaders, d \in {0, 1} :
        LET s == Serve(route, h, db, TRUE, clock, clock + d)
        IN  /\ MayElapse(d)
            /\ s.issue = NoIssue => d = 0
            /\ SessRoom(s.issue)
            /\ clock' = clock + d
            /\ issued' = issued \cup s.issue
            /\ req' = [Idle EXCEPT !.op = "protected", !.route = route,
                                   !.headers = h, !.at = clock,
                                   !.status = s.status, !.body = s.body,
                                   !.ctx = s.ctx, !.checks = s.checks,
                                   !.handler = s.handler, !.issue = s.issue]
            /\ UNCHANGED <<db, nextId, calls>>
    /\ UNCHANGED proc

\* the request and its answer, as kept while it is being answered
Answered(op, route, h, s) ==
    [Idle EXCEPT !.op = op, !.route = route, !.headers = h, !.at = clock,
                 !.status = s.status, !.body = s.body, !.ctx = s.ctx,
                 !.checks = s.checks, !.handler = s.handler]

\* a request of the client to a route of the admin group
SessAdmin ==
    /\ req = Idle
    /\ \E route \in AdminRoutes, h \in SessHeaders :
        req' = Answered("admin", route, h, AdminServe(route, h, db, TRUE, clock))
    /\ UNCHANGED <<db, nextId, clock, issued, calls>>
    /\ UNCHANGED proc

SessNext ==
    \/ Tick
    \/ SessRegister
    \/ SessLogin
    \/ SessProtected
    \/ SessAdmin
    \/ DeleteUser
    \/ Done

SessSpec == Init /\ [][SessNext]_vars

\* ------------------------------------------------------- the admin group
\* Users of both roles are put in the table directly, as the action tests do,
\* and requests go to the routes behind AdminMiddleware.
AdminHeaders ==
    {NoAuth, Auth(<<Bearer>>), Auth(<<Bearer, SP, Garbage>>)}
    \cup {Auth(<<Bearer, SP, Tok(t)>>) :
            t \in Held \cup {[h EXCEPT !.payload.Role = RoleAdmin] : h \in Held}}

\* createAuthenticatedUser(role): ValidateAndCreate, then GenerateJWT
CreateAuthenticatedUser ==
    /\ req = Idle
    /\ nextId < MaxUsers
    /\ \E role \in {RoleUser, RoleAdmin} :
        LET c == ValidateAndCreate(NewUser(NameOk, EmailA, PwGood, <<>>, role),
                                   db, nextId + 1, TRUE)
            g == GenerateJWT(c.user, clock, clock)
        IN  /\ c.verrs = {} /\ ~c.err
            /\ Room(Issuance(c.user, g))
            /\ db' = c.db
            /\ nextId' = nextId + 1
            /\ issued' = issued \cup Issuance(c.user, g)
    /\ UNCHANGED <<clock, req, calls>>
    /\ UNCHANGED proc

\* the role of a stored user is changed: ValidateAndUpdate of the loaded row
SetRole ==
    /\ req = Idle
    /\ \E id \in DOMAIN db, role \in {RoleUser, RoleAdmin} :
        LET c == ValidateAndUpdate([Loaded(db[id]) EXCEPT !.Role = role], db, TRUE)
        IN  /\ c.verrs = {} /\ ~c.err
            /\ c.db # db
            /\ db' = c.db
    /\ UNCHANGED <<nextId, clock, issued, req, calls>>
    /\ UNCHANGED proc

\* a request to a route of the admin group
AdminRequest ==
    /\ req = Idle
    /\ \E route \in AdminRoutes, h \in AdminHeaders, dbOk \in BOOLEAN :
        LET s == AdminServe(route, h, db, dbOk, clock)
        IN  /\ ~dbOk => Len(s.checks) = 5
            /\ req' = [Idle EXCEPT !.op = "admin", !.route = route,
                                   !.headers = h, !.dbOk = dbOk, !.at = clock,
                                   !.status = s.status, !.body = s.body,
                                   !.ctx = s.ctx, !.checks = s.checks,
                                   !.handler = s.handler, !.ran = s.ran]
    /\ UNCHANGED <<db, nextId, clock, issued, calls>>
    /\ UNCHANGED proc

\* the email of a stored user is changed: ValidateAndUpdate of the loaded row
SetEmail ==
    /\ req = Idle
    /\ \E id \in DOMAIN db, email \in {EmailA, EmailX} :
        LET c == ValidateAndUpdate([Loaded(db[id]) EXCEPT !.Email = email], db, TRUE)
        IN  /\ c.verrs = {} /\ ~c.err
            /\ c.db # db
            /\ db' = c.db
    /\ UNCHANGED <<nextId, clock, issued, req, calls>>
    /\ UNCHANGED proc

\* GET /auth/me with a token handed out earlier
MeRequest ==
    /\ req = Idle
    /\ \E h \in SessHeaders :
        req' = Answered("me", "/auth/me", h, Serve("/auth/me", h, db, TRUE, clock, clock))
    /\ UNCHANGED <<db, nextId, clock, issued, calls>>
    /\ UNCHANGED proc

AdminNext ==
    \/ Tick
    \/ CreateAuthenticatedUser
    \/ SetRole
    \/ SetEmail
    \/ AdminRequest
    \/ MeRequest
    \/ DeleteUser
    \/ Done

AdminSpec == Init /\ [][AdminNext]_vars

\* ------------------------------------------------- overlapping store calls
\* ValidateAndCreate and ValidateAndUpdate are not atomic: the validation
\* (with its SELECT for the email) and the write are two statements, and the
\* calls of several requests interleave between them.  Up to MaxUsers + 1
\* rows, so that two rows can stand side by side.
EmailAUpperPadded == <<" ", "A", "@", "B", ".", "C", "C", " ">>
StoreForms ==
    {Form(NameOk, EmailA, PwGood, PwGood),
     Form(NameOk, EmailAUpper, PwGood, PwGood),
     Form(NamePadded, EmailAUpperPadded, PwGood, PwGood),
     Form(NameOk, EmailX, PwGood, PwGood)}

\* RegisterHandler up to the end of the validation inside ValidateAndCreate
CreateCheck(c) ==
    /\ req = Idle
    /\ calls[c].pc = "idle"
    /\ \E f \in StoreForms :
        LET u == Normalize(NewUser(f.name, f.email, f.password, f.confirm, RoleUser))
            verrs == Validate(u) \cup ValidateCreate(u, db, TRUE)
        IN  calls' = [calls EXCEPT ![c] =
                IF f.password # f.confirm
                THEN [IdleCall EXCEPT !.pc = "answered", !.kind = "create",
                        !.given = f, !.status = StatusBadRequest,
                        !.body = ErrorResponse("Password confirmation does not match", {})]
                ELSE IF verrs # {}
                THEN [IdleCall EXCEPT !.pc = "answered", !.kind = "create",
                        !.given = f, !.user = u, !.status = StatusBadRequest,
                        !.body = ErrorResponse("Validation failed", verrs)]
                ELSE [IdleCall EXCEPT !.pc = "validated", !.kind = "create",
                        !.given = f, !.user = BeforeCreate(u)]]
    /\ UNCHANGED <<db, nextId, clock, issued, req>>
    /\ UNCHANGED proc

\* the INSERT of ValidateAndCreate, and RegisterHandler from there to its end
CreateWrite(c) ==
    /\ calls[c].pc = "validated"
    /\ calls[c].kind = "create"
    /\ nextId < MaxUsers + 1
    /\ LET row == [calls[c].user EXCEPT !.ID = nextId + 1]
           g == GenerateJWT(row, clock, clock)
       IN  IF UniqueIndexOk(db, row)
           THEN /\ db' = [i \in DOMAIN db \cup {row.ID} |->
                            IF i = row.ID THEN Row(row) ELSE db[i]]
                /\ nextId' = nextId + 1
                /\ calls' = [calls EXCEPT ![c] =
                        [@ EXCEPT !.pc = "answered", !.user = row,
                                  !.status = StatusCreated,
                                  !.body = AuthResponse(g.token, row, g.expiresAt)]]
           ELSE /\ calls' = [calls EXCEPT ![c] =
                        [@ EXCEPT !.pc = "answered",
                                  !.status = StatusInternalServerError,
                                  !.body = ErrorResponse("Failed to create user", {})]]
                /\ UNCHANGED <<db, nextId>>
    /\ UNCHANGED <<clock, issued, req>>
    /\ UNCHANGED proc

\* ValidateAndUpdate of a loaded row with a new name and email, up to the end
\* of its validation
UpdateCheck(c) ==
    /\ req = Idle
    /\ calls[c].pc = "idle"
    /\ \E id \in DOMAIN db, f \in StoreForms :
        LET n == f.name
            e == f.email
            u == Normalize([Loaded(db[id]) EXCEPT !.Name = n, !.Email = e])
            verrs == Validate(u) \cup ValidateUpdate(u, db, TRUE)
        IN  calls' = [calls EXCEPT ![c] =
                IF verrs # {}
                THEN [IdleCall EXCEPT !.pc = "answered", !.kind = "update",
                        !.given = Form(n, e, <<>>, <<>>), !.user = u,
                        !.body = ErrorResponse("Validation failed", verrs)]
                ELSE [IdleCall EXCEPT !.pc = "validated", !.kind = "update",
                        !.given = Form(n, e, <<>>, <<>>), !.user = BeforeUpdate(u)]]
    /\ UNCHANGED <<db, nextId, clock, issued, req>>
    /\ UNCHANGED proc

\* the UPDATE of ValidateAndUpdate
UpdateWrite(c) ==
    /\ calls[c].pc = "validated"
    /\ calls[c].kind = "update"
    /\ LET row == calls[c].user
       IN  IF UniqueIndexOk(db, row)
           THEN /\ db' = [i \in DOMAIN db |-> IF i = row.ID THEN Row(row) ELSE db[i]]
                /\ calls' = [k \in Clients |->
                        IF k = c
                        THEN [calls[k] EXCEPT !.pc = "answered", !.status = StatusOK]
                        ELSE [calls[k] EXCEPT !.clean = calls[k].pc = "idle"]]
           ELSE /\ calls' = [calls EXCEPT ![c] =
                        [@ EXCEPT !.pc = "answered",
                                  !.status = StatusInternalServerError]]
                /\ UNCHANGED db
    /\ UNCHANGED <<nextId, clock, issued, req>>
    /\ UNCHANGED proc

\* the call returns to its caller
CallEnd(c) ==
    /\ calls[c].pc = "answered"
    /\ calls' = [calls EXCEPT ![c] = IdleCall]
    /\ UNCHANGED <<db, nextId, clock, issued, req>>
    /\ UNCHANGED proc

StoreNext ==
    \E c \in Clients :
        \/ CreateCheck(c)
        \/ CreateWrite(c)
        \/ UpdateCheck(c)
        \/ UpdateWrite(c)
        \/ CallEnd(c)

StoreSpec == Init /\ [][StoreNext]_vars

\* ------------------------------------------------------- the model layer
\* Users created and updated through pop directly, with every field a caller
\* can set, next to registrations through the handler.
Pw72 == Rep("p", BcryptMaxLen)
Pw73 == Rep("p", BcryptMaxLen + 1)
ModelPasswords == {PwGood, PwOther, Pw72, Pw73, PwShort, <<>>}
ModelRoles == {"", RoleUser, RoleAdmin, "invalid_role"}

\* DB.ValidateAndCreate(&User{Name, Email, Password, Role})
ModelCreate ==
    /\ req = Idle
    /\ \E e \in {EmailA, EmailX}, pw \in ModelPasswords, role \in ModelRoles :
        LET c == ValidateAndCreate(NewUser(NameOk, e, pw, <<>>, role),
                                   db, nextId + 1, TRUE)
        IN  /\ c.db # db => nextId < MaxUsers
            /\ db' = c.db
            /\ nextId' = IF c.db = db THEN nextId ELSE nextId + 1
            /\ req' = [Idle EXCEPT !.op = "create",
                                   !.form = Form(NameOk, e, pw, <<>>), !.role = role,
                                   !.body = ErrorResponse("", c.verrs), !.err = c.err,
                                   !.target = IF c.db = db THEN NilID ELSE nextId + 1]
    /\ UNCHANGED <<clock, issued, calls>>
    /\ UNCHANGED proc

\* user.Password = ..; user.Role = ..; DB.ValidateAndUpdate(user), on a user
\* loaded from the table
ModelUpdate ==
    /\ req = Idle
    /\ \E id \in DOMAIN db, pw \in ModelPasswords, role \in ModelRoles :
        LET c == ValidateAndUpdate([Loaded(db[id]) EXCEPT !.Password = pw, !.Role = role],
                                   db, TRUE)
        IN  /\ db' = c.db
            /\ req' = [Idle EXCEPT !.op = "update",
                                   !.form = Form(db[id].Name, db[id].Email, pw, <<>>),
                                   !.role = role,
                                   !.body = ErrorResponse("", c.verrs), !.err = c.err,
                                   !.target = id, !.before = db[id]]
    /\ UNCHANGED <<nextId, clock, issued, calls>>
    /\ UNCHANGED proc

\* bodies of POST /auth/register with every fault of a field, next to the
\* well-formed ones
NameLong == Rep("a", NameMax + 1)
NameBlank == <<" ", " ">>
ModelForms ==
    RegisterForms
    \cup {Form(NameLong, EmailX, PwGood, PwGood),
          Form(NameBlank, EmailX, PwGood, PwGood),
          Form(NameOk, <<" ">>, PwGood, PwGood),
          Form(NameOk, EmailX, <<>>, PwGood),
          Form(NameOk, EmailX, Pw72, Pw72),
          Form(NameOk, EmailX, Pw73, Pw73)}

\* POST /auth/register
ModelRegister ==
    /\ req = Idle
    /\ \E f \in ModelForms, dbOk \in BOOLEAN :
        LET r == RegisterHandler(f.name, f.email, f.password, f.confirm,
                                 db, nextId + 1, dbOk, clock, clock)
        IN  /\ r.db # db => nextId < MaxUsers
            /\ db' = r.db
            /\ nextId' = IF r.db = db THEN nextId ELSE nextId + 1
            /\ issued' = issued \cup r.out.issue
            /\ req' = [Idle EXCEPT !.op = "register", !.route = "/auth/register",
                                   !.form = f, !.dbOk = dbOk, !.at = clock,
                                   !.status = r.out.status, !.body = r.out.body,
                                   !.handler = "RegisterHandler",
                                   !.issue = r.out.issue]
    /\ UNCHANGED <<clock, calls>>
    /\ UNCHANGED proc

ModelNext == ModelCreate \/ ModelUpdate \/ ModelRegister \/ Done

ModelSpec == Init /\ [][ModelNext]_vars

\* ------------------------------------------------------------ the process
\* The goroutines that call App(), the environment of the process, and the
\* readiness probe served by the application once it is built.

\* the statements of the function App() hands to appOnce.Do, in order
AppStatements ==
    <<[op |-> "New", arg |-> ""],
      [op |-> "Use", arg |-> "forceSSL"],
      [op |-> "Use", arg |-> "ParameterLogger"],
      [op |-> "Use", arg |-> "contenttype"],
      [op |-> "Route", arg |-> "GET /health"],
      [op |-> "Route", arg |-> "GET /health/live"],
      [op |-> "Route", arg |-> "GET /health/ready"],
      [op |-> "Route", arg |-> "POST /auth/register"],
      [op |-> "Route", arg |-> "POST /auth/login"],
      [op |-> "Route", arg |-> "GET /auth/me"],
      [op |-> "Route", arg |-> "POST /auth/refresh"],
      [op |-> "Route", arg |-> "GET /api/v1/profile"]>>

\* a buffalo.App as buffalo.New returns it
NewApp == [wares |-> <<>>, routes |-> <<>>]

\* one statement of the function: the values of app and apps after it
Exec(stmt, a, as) ==
    IF stmt.op = "New"
    THEN [app |-> Len(as) + 1, apps |-> Append(as, NewApp)]
    ELSE IF stmt.op = "Use"
    THEN [app |-> a, apps |-> [as EXCEPT ![a].wares = Append(@, stmt.arg)]]
    ELSE [app |-> a, apps |-> [as EXCEPT ![a].routes = Append(@, stmt.arg)]]

\* a sync.Once that never reports done
OnceNeverDone(o) == FALSE

\* o.done.Load() # 0
OnceDone(o) == o.done

\* a goroutine calls App() and enters appOnce.Do
Call(c) ==
    /\ callers[c].pc = "idle"
    /\ callers' = [callers EXCEPT ![c].pc = "fast"]
    /\ UNCHANGED <<db, nextId, clock, issued, req, calls, env, app, apps, appOnce>>

\* Once.Do: the check of done before the mutex
OnceFast(c) ==
    /\ callers[c].pc = "fast"
    /\ callers' = [callers EXCEPT
                     ![c].pc = IF OnceDone(appOnce) THEN "return" ELSE "lock"]
    /\ UNCHANGED <<db, nextId, clock, issued, req, calls, env, app, apps, appOnce>>

\* Once.doSlow: o.m.Lock() and the second check of done
OnceLock(c) ==
    /\ callers[c].pc = "lock"
    /\ appOnce.m = 0
    /\ appOnce' = [appOnce EXCEPT !.m = c]
    /\ callers' = [callers EXCEPT
                     ![c].pc = IF OnceDone(appOnce) THEN "unlock" ELSE "init",
                     ![c].step = 1]
    /\ UNCHANGED <<db, nextId, clock, issued, req, calls, env, app, apps>>

\* the next statement of the function handed to appOnce.Do
InitStep(c) ==
    /\ callers[c].pc = "init"
    /\ LET x == Exec(AppStatements[callers[c].step], app, apps)
       IN  /\ app' = x.app
           /\ apps' = x.apps
    /\ callers' = [callers EXCEPT
                     ![c].pc = IF callers[c].step = Len(AppStatements)
                               THEN "store" ELSE "init",
                     ![c].step = @ + 1]
    /\ UNCHANGED <<db, nextId, clock, issued, req, calls, env, appOnce>>

\* Once.doSlow: the deferred o.done.Store(1)
OnceStore(c) ==
    /\ callers[c].pc = "store"
    /\ appOnce' = [appOnce EXCEPT !.done = TRUE]
    /\ callers' = [callers EXCEPT ![c].pc = "unlock"]
    /\ UNCHANGED <<db, nextId, clock, issued, req, calls, env, app, apps>>

\* Once.doSlow: the deferred o.m.Unlock()
OnceUnlock(c) ==
    /\ callers[c].pc = "unlock"
    /\ appOnce' = [appOnce EXCEPT !.m = 0]
    /\ callers' = [callers EXCEPT ![c].pc = "return", ![c].step = 0]
    /\ UNCHANGED <<db, nextId, clock, issued, req, calls, env, app, apps>>

\* return app
Return(c) ==
    /\ callers[c].pc = "return"
    /\ callers' = [callers EXCEPT ![c].pc = "idle", ![c].ret = app,
                                  ![c].returned = TRUE]
    /\ UNCHANGED <<db, nextId, clock, issued, req, calls, env, app, apps, appOnce>>

\* values of SIMULATE_NOT_READY; "" is the variable unset
EnvValues == {"", "true", "false", "TRUE", "1"}

\* os.Setenv / os.Unsetenv
Setenv ==
    /\ \E v \in EnvValues \ {env} : env' = v
    /\ UNCHANGED <<db, nextId, clock, issued, req, calls, app, apps, appOnce, callers>>

\* checkReadiness not ready whenever the variable is set
checkReadinessWhenSet(e) ==
    IF e # ""
    THEN [ready |-> FALSE, services |-> [api |-> "not_ready"]]
    ELSE [ready |-> TRUE, services |-> [api |-> "ready"]]

\* checkReadiness; e is what os.Getenv("SIMULATE_NOT_READY") returns
checkReadiness(e) ==
    IF e = "true"
    THEN [ready |-> FALSE, services |-> [api |-> "not_ready"]]
    ELSE [ready |-> TRUE, services |-> [api |-> "ready"]]

\* ReadinessHandler
ReadinessHandler(e) ==
    LET r == checkReadiness(e)
    IN  IF ~r.ready
        THEN [status |-> StatusServiceUnavailable,
              health |-> [status |-> "not_ready", services |-> r.services]]
        ELSE [status |-> StatusOK,
              health |-> [status |-> "ready", services |-> r.services]]

\* GET /health/ready
Readiness ==
    /\ req = Idle
    /\ \E c \in Clients :
        /\ callers[c].returned
        /\ callers[c].ret \in DOMAIN apps
        /\ \E i \in DOMAIN apps[callers[c].ret].routes :
            apps[callers[c].ret].routes[i] = "GET /health/ready"
    /\ LET h == ReadinessHandler(env)
       IN  req' = [Idle EXCEPT !.op = "ready", !.route = "/health/ready",
                              !.status = h.status, !.health = h.health,
                              !.handler = "ReadinessHandler"]
    /\ UNCHANGED <<db, nextId, clock, issued, calls>>
    /\ UNCHANGED proc

ProcNext ==
    \/ \E c \in Clients :
        \/ Call(c)
        \/ OnceFast(c)
        \/ OnceLock(c)
        \/ InitStep(c)
        \/ OnceStore(c)
        \/ OnceUnlock(c)
        \/ Return(c)
    \/ Setenv
    \/ Readiness
    \/ Done

ProcSpec == Init /\ [][ProcNext]_vars

\* ------------------------------------------------------------- properties
\* the Authorization header of the request being answered, "" when absent
ReqAuth == IF req.headers.present THEN req.headers.value ELSE <<>>

\* how many spaces a header value holds
Spaces(h) == Cardinality({i \in 1..Len(h) : h[i].k = "sp"})

\* the value reads Bearer, one space, and text without a space
IsBearerForm(h) ==
    /\ Len(h) >= 2
    /\ Spaces(h) = 1
    /\ h[1].k = "word" /\ h[1].w = "Bearer"
    /\ h[2].k = "sp"

\* what follows "Bearer " in the value
TokenText(h) == SubSeq(h, 3, Len(h))

\* a compact token carrying the signature the secret gives its payload
ValidlySigned(t) ==
    /\ t.alg \in {"HS256", "HS384", "HS512"}
    /\ t.sig.alg = t.alg
    /\ t.sig.key = jwtSecretKey
    /\ t.sig.payload = t.payload

\* the text is one compact token
IsToken(text) == Len(text) = 1 /\ text[1].k = "tok"

\* the token is inside its validity window at time now
InWindow(t, now) ==
    /\ now < t.payload.ExpiresAt * TicksPerSec
    /\ now >= t.payload.NotBefore * TicksPerSec

\* the five checks of the middleware, each stated on the request itself:
\* whether the request fails it
FailsHeader == ReqAuth = <<>>
FailsFormat == ~IsBearerForm(ReqAuth)
FailsDecode ==
    \/ ~IsToken(TokenText(ReqAuth))
    \/ ~ValidlySigned(TokenText(ReqAuth)[1].t)
    \/ ~InWindow(TokenText(ReqAuth)[1].t, req.at)
\* these two look at the token the header carries, whether or not it verifies
Carried == {ReqAuth[i].t : i \in {j \in 1..Len(ReqAuth) : ReqAuth[j].k = "tok"}}
FailsSubject == \E t \in Carried : t.payload.UserID.kind # "uuid"
FailsLookup ==
    \/ ~req.dbOk
    \/ \E t \in Carried : t.payload.UserID.v \notin DOMAIN db

AuthErrors ==
    <<"Authorization header required", "Invalid authorization header format",
      "Invalid token", "Invalid user ID in token", "User not found">>
CheckOrder == <<"header", "format", "decode", "subject", "lookup">>

\* the first check of the order the request fails, 0 when it passes them all
FirstFailure ==
    IF FailsHeader THEN 1
    ELSE IF FailsFormat THEN 2
    ELSE IF FailsDecode THEN 3
    ELSE IF FailsSubject THEN 4
    ELSE IF FailsLookup THEN 5
    ELSE 0

\* C1: on a protected route the handler runs only for a request whose header
\* is present and reads "Bearer <token>", whose token is validly signed and
\* unexpired, whose subject is a well-formed id, and whose id is in the users
\* table; and the context then holds exactly that row.
C1_HandlerOnlyForResolvedIdentity ==
    (req.op = "protected" /\ req.handler # "") =>
        /\ req.headers.present
        /\ ReqAuth # <<>>
        /\ IsBearerForm(ReqAuth)
        /\ IsToken(TokenText(ReqAuth))
        /\ LET t == TokenText(ReqAuth)[1].t
           IN  /\ ValidlySigned(t)
               /\ req.at < t.payload.ExpiresAt * TicksPerSec
               /\ t.payload.UserID.kind = "uuid"
               /\ t.payload.UserID.v \in DOMAIN db
               /\ req.ctx.hasUser
               /\ Row(req.ctx.currentUser) = db[t.payload.UserID.v]
               /\ req.ctx.currentUser.ID = t.payload.UserID.v
               /\ req.ctx.hasUserID
               /\ req.ctx.currentUserID = t.payload.UserID.v

\* C1 witness: a protected request reached its handler
C1_Witness ==
    /\ req.op = "protected"
    /\ req.handler = "MeHandler"
    /\ req.status = StatusOK
    /\ req.body.user.id \in DOMAIN db

\* C2: the checks run in the fixed order header, format, decode, subject,
\* lookup; the error is that of the first check the request fails, and
\* nothing after the failed check runs (no lookup in particular).
C2_FixedCheckOrder ==
    req.op = "protected" =>
        /\ \E k \in 1..5 : req.checks = SubSeq(CheckOrder, 1, k)
        /\ FirstFailure # 0 =>
            /\ req.body.error = AuthErrors[FirstFailure]
            /\ req.checks = SubSeq(CheckOrder, 1, FirstFailure)
        /\ FirstFailure = 0 => req.checks = CheckOrder /\ req.handler # ""

\* C2 witness: a request failing two checks at once (its token has expired
\* and its user is gone) is answered for the earlier one, with no lookup
C2_Witness ==
    /\ req.op = "protected"
    /\ ~FailsHeader /\ ~FailsFormat
    /\ FailsDecode /\ FailsLookup /\ req.dbOk
    /\ IsToken(TokenText(ReqAuth)) /\ ValidlySigned(TokenText(ReqAuth)[1].t)
    /\ req.body.error = "Invalid token"
    /\ req.checks = <<"header", "format", "decode">>

\* C3: every failure of the middleware ends the request with 401 and an
\* {error: message} body, the handler not called and nothing bound.
C3_FailuresAre401 ==
    (req.op = "protected" /\ FirstFailure # 0) =>
        /\ req.status = StatusUnauthorized
        /\ req.body.kind = "error"
        /\ req.body.error = AuthErrors[FirstFailure]
        /\ req.body.details = {}
        /\ req.handler = ""
        /\ ~req.ctx.hasUser
        /\ ~req.ctx.hasUserID

\* C3 witness: the last of the failure states, a token whose user is unknown
C3_Witness ==
    /\ req.op = "protected"
    /\ FirstFailure = 5
    /\ req.status = StatusUnauthorized

\* C4: an absent or empty Authorization header gives 401 "Authorization
\* header required".
C4_HeaderRequired ==
    (req.op = "protected" /\ (~req.headers.present \/ req.headers.value = <<>>)) =>
        /\ req.status = StatusUnauthorized
        /\ req.body.kind = "error"
        /\ req.body.error = "Authorization header required"
        /\ req.handler = ""

\* C4 witness: the header is there and empty
C4_Witness ==
    /\ req.op = "protected"
    /\ req.headers.present
    /\ req.headers.value = <<>>
    /\ req.status = StatusUnauthorized

\* C5: a non-empty header that is not "Bearer", one space, one more part gives
\* 401 "Invalid authorization header format", and the token is not decoded.
C5_MalformedHeader ==
    (req.op = "protected" /\ ReqAuth # <<>> /\ ~IsBearerForm(ReqAuth)) =>
        /\ req.status = StatusUnauthorized
        /\ req.body.kind = "error"
        /\ req.body.error = "Invalid authorization header format"
        /\ req.handler = ""
        /\ \A i \in 1..Len(req.checks) : req.checks[i] # "decode"

\* C5 witness: three parts, the second a token that would verify
C5_Witness ==
    /\ req.op = "protected"
    /\ Len(ReqAuth) = 5
    /\ Spaces(ReqAuth) = 2
    /\ ReqAuth[1].w = "Bearer"
    /\ ReqAuth[3].k = "tok"
    /\ ValidlySigned(ReqAuth[3].t) /\ InWindow(ReqAuth[3].t, req.at)
    /\ req.body.error = "Invalid authorization header format"

\* C6: a "Bearer <token>" header whose token does not decode, whatever the
\* reason (not a token, not signed with the secret, expired), gives 401
\* "Invalid token".
C6_InvalidToken ==
    (req.op = "protected" /\ IsBearerForm(ReqAuth) /\ FailsDecode) =>
        /\ req.status = StatusUnauthorized
        /\ req.body.kind = "error"
        /\ req.body.error = "Invalid token"
        /\ req.handler = ""

\* C6 witness: the expired case, a token of this server past its expiry
C6_Witness ==
    /\ req.op = "protected"
    /\ IsBearerForm(ReqAuth)
    /\ IsToken(TokenText(ReqAuth))
    /\ TokenText(ReqAuth)[1].t \in Held
    /\ req.at >= TokenText(ReqAuth)[1].t.payload.ExpiresAt * TicksPerSec
    /\ req.body.error = "Invalid token"

\* C7: once the row of a token's user is gone from the table, a request with
\* that token, still signed and unexpired, gets 401 "User not found" and does
\* not reach the handler.
C7_DeletedIdentityRejected ==
    (/\ req.op = "protected"
     /\ IsBearerForm(ReqAuth)
     /\ IsToken(TokenText(ReqAuth))
     /\ TokenText(ReqAuth)[1].t \in Held
     /\ InWindow(TokenText(ReqAuth)[1].t, req.at)
     /\ TokenText(ReqAuth)[1].t.payload.UserID.v \notin DOMAIN db) =>
        /\ req.status = StatusUnauthorized
        /\ req.body.kind = "error"
        /\ req.body.error = "User not found"
        /\ req.handler = ""

\* C7 witness: a held token inside its window, its user deleted, the store up
C7_Witness ==
    /\ req.op = "protected"
    /\ req.dbOk
    /\ IsBearerForm(ReqAuth)
    /\ IsToken(TokenText(ReqAuth))
    /\ TokenText(ReqAuth)[1].t \in Held
    /\ InWindow(TokenText(ReqAuth)[1].t, req.at)
    /\ TokenText(ReqAuth)[1].t.payload.UserID.v \notin DOMAIN db
    /\ TokenText(ReqAuth)[1].t.payload.UserID.v <= nextId
    /\ req.status = StatusUnauthorized

\* C8: a token GenerateJWT produced does not decode at any time strictly after
\* its expires-at (an error and no claims), and a request carrying it then
\* does not reach a handler.
C8_ExpiredTokenRejected ==
    /\ \A e \in issued :
        \A now \in {clock} \cup {NumericTime(e.token.payload.ExpiresAt) + k :
                                    k \in 1..(TicksPerSec + 1)} :
            now > NumericTime(e.token.payload.ExpiresAt) =>
                /\ ValidateJWT(<<Tok(e.token)>>, now).err # ""
                /\ ValidateJWT(<<Tok(e.token)>>, now).claims = NoClaims
    /\ (/\ req.op = "protected"
        /\ \E t \in Carried \cap Held :
            req.at > NumericTime(t.payload.ExpiresAt)) => req.handler = ""

\* C8 witness: a request with "Bearer <token>" made after the token's expiry
C8_Witness ==
    /\ req.op = "protected"
    /\ IsBearerForm(ReqAuth)
    /\ IsToken(TokenText(ReqAuth))
    /\ TokenText(ReqAuth)[1].t \in Held
    /\ ValidlySigned(TokenText(ReqAuth)[1].t)
    /\ req.at > NumericTime(TokenText(ReqAuth)[1].t.payload.ExpiresAt)
    /\ TokenText(ReqAuth)[1].t.payload.UserID.v \in DOMAIN db
    /\ req.status = StatusUnauthorized

\* C9: decoding a token GenerateJWT produced, before its expiry, succeeds and
\* gives the id, the email and the role of the identity it was produced for;
\* and the identity answered with a new token is the one its claims name.
C9_RoundTrip ==
    /\ \A e \in issued :
        clock < NumericTime(e.token.payload.ExpiresAt) =>
            LET v == ValidateJWT(<<Tok(e.token)>>, clock)
            IN  /\ v.err = ""
                /\ ~FromString(v.claims.UserID).err
                /\ FromString(v.claims.UserID).id = e.user.id
                /\ ~FromString(v.claims.Subject).err
                /\ FromString(v.claims.Subject).id = e.user.id
                /\ v.claims.Email = e.user.email
                /\ v.claims.Role = e.user.role
    /\ \A e \in req.issue :
        /\ e \in issued
        /\ req.body.token = e.token
        /\ req.body.user = e.user
    /\ (req.op = "register" /\ req.status = StatusCreated) =>
        /\ req.issue # {}
        /\ req.body.user.id \in DOMAIN db
        /\ req.body.user.email = db[req.body.user.id].Email
        /\ req.body.user.role = db[req.body.user.id].Role

\* C9 witness: a token from a registration, a day old and short of its expiry
C9_Witness ==
    \E e \in issued :
        /\ clock >= TTLTicks
        /\ clock < NumericTime(e.token.payload.ExpiresAt)
        /\ e.user.id \in DOMAIN db
        /\ ValidateJWT(<<Tok(e.token)>>, clock).claims.Email = db[e.user.id].Email

\* C10: every token has expires-at = issued-at + 24 hours and not-before =
\* issued-at, and the expiry returned with the token is the expires-at of its
\* claims, to the second.
C10_ExpiryIsIssuedAtPlus24h ==
    \A e \in issued :
        /\ e.token.payload.ExpiresAt = e.token.payload.IssuedAt + TokenTTLSeconds
        /\ e.token.payload.NotBefore = e.token.payload.IssuedAt
        /\ NewNumericDate(e.expiresAt) = e.token.payload.ExpiresAt

\* the claims of a token with one of them changed, each claim in turn
Tampered(p) ==
    {[p EXCEPT !.UserID = UUIDString(@.v + 1)],
     [p EXCEPT !.Subject = UUIDString(@.v + 1)],
     [p EXCEPT !.Email = <<"x">> \o @],
     [p EXCEPT !.Role = IF @ = RoleAdmin THEN RoleUser ELSE RoleAdmin],
     [p EXCEPT !.IssuedAt = @ + 1],
     [p EXCEPT !.NotBefore = @ + 1],
     [p EXCEPT !.ExpiresAt = @ + TokenTTLSeconds],
     [p EXCEPT !.Issuer = "someone-else"]}

\* the token text with its claims replaced and its signature kept, under the
\* header it had or under another algorithm
Reclaimed(t, p) ==
    {[t EXCEPT !.payload = p],
     [t EXCEPT !.payload = p, !.alg = "none"],
     [t EXCEPT !.payload = p, !.alg = "HS512"]}

\* C11: a token GenerateJWT produced, with any one claim changed (user id,
\* subject, email, role, issued-at, not-before, expires-at, issuer) and the
\* signature kept, does not decode at any time; and a protected handler is
\* reached only with a token that was issued, unchanged.  The first part is
\* evaluated between requests: the tokens and the clock of a state holding an
\* answer are those of the state that follows it.
C11_TamperedTokenRejected ==
    /\ req = Idle =>
        \A e \in issued : \A p \in Tampered(e.token.payload) :
            /\ p # e.token.payload
            /\ \A t \in Reclaimed(e.token, p) :
                \A now \in {clock, NumericTime(p.NotBefore),
                             NumericTime(p.ExpiresAt) - 1} :
                    LET v == ValidateJWT(<<Tok(t)>>, now)
                    IN  v.err # "" /\ v.claims = NoClaims
    /\ (req.op = "protected" /\ req.handler # "") =>
        /\ IsToken(TokenText(ReqAuth))
        /\ TokenText(ReqAuth)[1].t \in Held
        /\ \E e \in issued :
            /\ e.token = TokenText(ReqAuth)[1].t
            /\ req.ctx.currentUser.ID = e.user.id
            /\ req.at < NumericTime(e.token.payload.ExpiresAt)

\* C11 witness: a held token with its role claim raised to admin, inside its
\* window and its user in the table, is turned away as an invalid token
C11_Witness ==
    /\ req.op = "protected"
    /\ IsBearerForm(ReqAuth)
    /\ IsToken(TokenText(ReqAuth))
    /\ \E t \in Held :
        /\ TokenText(ReqAuth)[1].t = [t EXCEPT !.payload.Role = RoleAdmin]
        /\ t.payload.Role # RoleAdmin
        /\ InWindow(t, req.at)
        /\ t.payload.UserID.v \in DOMAIN db
    /\ req.status = StatusUnauthorized
    /\ req.body.error = "Invalid token"
    /\ req.handler = ""

\* C12: a token stays accepted until its own expires-at whatever was issued
\* after it: at every instant before the expiry of an issued token whose
\* identity is in the table, AuthMiddleware lets a request with that token
\* through and binds that identity, and the request being answered that
\* carries such a token reached its handler.
C12_ExpiryOnlyInvalidation ==
    /\ \A e \in issued :
        (clock < NumericTime(e.token.payload.ExpiresAt) /\ e.user.id \in DOMAIN db) =>
            LET m == AuthMiddleware(Auth(<<Bearer, SP, Tok(e.token)>>), clock, db, TRUE)
            IN  /\ m.next
                /\ m.ctx.hasUser
                /\ m.ctx.currentUser.ID = e.user.id
    /\ (/\ req.op = "protected" /\ req.dbOk
        /\ IsBearerForm(ReqAuth) /\ IsToken(TokenText(ReqAuth))
        /\ TokenText(ReqAuth)[1].t \in Held
        /\ req.at < NumericTime(TokenText(ReqAuth)[1].t.payload.ExpiresAt)
        /\ TokenText(ReqAuth)[1].t.payload.UserID.v \in DOMAIN db) =>
            /\ req.handler # ""
            /\ req.status = StatusOK
            /\ req.ctx.currentUser.ID = TokenText(ReqAuth)[1].t.payload.UserID.v

\* C12 witness: a request is accepted with the older of two tokens of one
\* identity, made after the newer one was issued
C12_Witness ==
    /\ req.op = "protected"
    /\ req.handler # ""
    /\ req.issue = NoIssue
    /\ \E old \in issued, new \in issued :
        /\ TokenText(ReqAuth)[1].t = old.token
        /\ new.token # old.token
        /\ new.user.id = old.user.id
        /\ new.token.payload.IssuedAt > old.token.payload.IssuedAt
        /\ req.at >= NumericTime(new.token.payload.IssuedAt)

\* C13: a refresh answers with a token string different from every earlier
\* token of the identity, the one presented with the request included, even
\* within one second; the two tokens are both valid and name one identity.
C13_RefreshTokensDistinct ==
    (req.op = "protected" /\ req.handler = "RefreshTokenHandler") =>
        LET old == TokenText(ReqAuth)[1].t
            new == req.body.token
        IN  /\ new # old
            /\ ValidateJWT(<<Tok(old)>>, clock).err = ""
            /\ ValidateJWT(<<Tok(new)>>, clock).err = ""
            /\ new.payload.UserID = old.payload.UserID

\* the rows whose stored email is the normalised form of a request's email
Registered(email) == WhereEmail(db, ToLower(TrimSpace(email)))

\* the login names a registered email and a password that is not its own
WrongPassword(f) ==
    /\ Registered(f.email) # {}
    /\ \A i \in Registered(f.email) : ~ValidatePassword(Loaded(db[i]), f.password)

\* C14: a login with an email no identity has and a login with a registered
\* email and a wrong password get the same response, 401 and
\* {error: "Invalid credentials"}; every failed login gets that response.
\* The comparison of the two outcomes is evaluated between requests, on every
\* table and clock reached.
C14_LoginNonDistinguishable ==
    /\ req = Idle =>
       LET unknown == {LoginHandler(f.email, f.password, db, TRUE, clock, clock) :
                          f \in {g \in LoginForms : Registered(g.email) = {}}}
           wrong == {LoginHandler(f.email, f.password, db, TRUE, clock, clock) :
                        f \in {g \in LoginForms : WrongPassword(g)}}
       IN  \A o1 \in unknown, o2 \in wrong :
               /\ o1.status = StatusUnauthorized
               /\ o1.body = ErrorResponse("Invalid credentials", {})
               /\ o1.status = o2.status
               /\ o1.body = o2.body
    /\ (req.op = "login" /\ (Registered(req.form.email) = {} \/ WrongPassword(req.form))) =>
        /\ req.status = StatusUnauthorized
        /\ req.body = ErrorResponse("Invalid credentials", {})
        /\ req.issue = NoIssue

\* C14 witness: a login with a registered email and a wrong password is
\* answered, while a form with an unknown email is at hand
C14_Witness ==
    /\ req.op = "login"
    /\ req.dbOk
    /\ req.form.email \in {db[i].Email : i \in DOMAIN db}
    /\ WrongPassword(req.form)
    /\ req.status = StatusUnauthorized
    /\ \E f1 \in LoginForms : Registered(f1.email) = {}

\* C15: a login whose email is a registered email up to letter case and
\* surrounding blanks, with the password of that identity, is answered 200
\* with that identity and a token for it.
C15_LoginByNormalizedEmail ==
    (req.op = "login" /\ req.dbOk) =>
        \A i \in Registered(req.form.email) :
            ValidatePassword(Loaded(db[i]), req.form.password) =>
                /\ req.status = StatusOK
                /\ req.body.kind = "auth"
                /\ req.body.user = UserJSON(Loaded(db[i]))
                /\ req.body.token.payload.UserID = UUIDString(i)

\* the contexts a request can carry into AdminMiddleware: nothing bound, or
\* a row of the table bound
Contexts ==
    {EmptyContext}
    \cup {[hasUser |-> TRUE, currentUser |-> Loaded(db[i]),
           hasUserID |-> TRUE, currentUserID |-> i] : i \in DOMAIN db}

\* C16: AdminMiddleware calls the next handler exactly when an identity is
\* bound and its role is admin; a bound identity of role user gets 403 "Admin
\* access required"; with nothing bound the answer is 401, never a pass.
C16_RoleGate ==
    /\ \A ctx \in Contexts :
        LET m == AdminMiddleware(ctx)
        IN  /\ m.next <=> (ctx.hasUser /\ ctx.currentUser.Role = RoleAdmin)
            /\ (ctx.hasUser /\ ctx.currentUser.Role = RoleUser) =>
                /\ m.status = StatusForbidden
                /\ m.body = ErrorResponse("Admin access required", {})
            /\ ~ctx.hasUser =>
                /\ ~m.next
                /\ m.status = StatusUnauthorized
    /\ req.op = "admin" =>
        /\ req.handler # "" <=> (req.ctx.hasUser /\ req.ctx.currentUser.Role = RoleAdmin)
        /\ (req.ctx.hasUser /\ req.ctx.currentUser.Role = RoleUser) =>
            /\ req.status = StatusForbidden
            /\ req.body = ErrorResponse("Admin access required", {})
        /\ ~req.ctx.hasUser => req.status = StatusUnauthorized
        /\ req.ctx.hasUser => Row(req.ctx.currentUser) = db[req.ctx.currentUserID]

\* C16 witness: a validly signed token of a user of role user, on an admin
\* route, is answered 403
C16_Witness ==
    /\ req.op = "admin"
    /\ req.ctx.hasUser
    /\ req.ctx.currentUser.Role = RoleUser
    /\ req.status = StatusForbidden
    /\ req.handler = ""

\* C17: on an admin route AuthMiddleware runs first and AdminMiddleware runs
\* only after it has passed all its checks and bound the identity; a request
\* failing any check of AuthMiddleware is answered 401, not 403, and
\* AdminMiddleware does not run on it.
C17_AuthBeforeAdmin ==
    req.op = "admin" =>
        /\ req.ran \in {<<"AuthMiddleware">>, <<"AuthMiddleware", "AdminMiddleware">>}
        /\ Len(req.ran) = 2 =>
            /\ req.checks = CheckOrder
            /\ FirstFailure = 0
            /\ req.ctx.hasUser
        /\ FirstFailure # 0 =>
            /\ req.ran = <<"AuthMiddleware">>
            /\ req.status = StatusUnauthorized
            /\ req.body.error = AuthErrors[FirstFailure]
            /\ req.handler = ""

\* C17 witness: a token of a user with its role claim rewritten to admin is
\* stopped by AuthMiddleware with 401, and AdminMiddleware does not run
C17_Witness ==
    /\ req.op = "admin"
    /\ IsBearerForm(ReqAuth)
    /\ IsToken(TokenText(ReqAuth))
    /\ TokenText(ReqAuth)[1].t.payload.Role = RoleAdmin
    /\ TokenText(ReqAuth)[1].t \notin Held
    /\ req.status = StatusUnauthorized
    /\ req.ran = <<"AuthMiddleware">>

\* the rows that had the normalised email of the register request before the
\* request ran: all that have it now, less the row the request created
TakenBefore ==
    {i \in Registered(req.form.email) :
        ~(req.status = StatusCreated /\ req.body.user.id = i)}

\* what a register request whose email is taken must be answered
DuplicateRefused ==
    /\ req.status = StatusBadRequest
    /\ req.body.kind = "error"
    /\ req.body.error = "Validation failed"
    /\ VErr("email", "Email is already taken") \in req.body.details
    /\ req.issue = NoIssue
    /\ Cardinality(Registered(req.form.email)) = 1

\* C18: a register request whose email, lowercased and trimmed, is the email
\* of a stored identity is answered 400 "Validation failed" with an "already
\* taken" entry under details.email, and no second identity is created
\* (the store answering its queries).
C18_DuplicateEmailRefused ==
    (req.op = "register" /\ TakenBefore # {} /\ req.dbOk) => DuplicateRefused

\* C18, amended: the same, for a request whose password confirmation equals
\* its password.
C18_DuplicateEmailRefusedWhenValidated ==
    (/\ req.op = "register"
     /\ TakenBefore # {}
     /\ req.form.password = req.form.confirm
     /\ req.dbOk) => DuplicateRefused

\* C18 witness: the stored email in capitals, confirmation matching, refused
C18_Witness ==
    /\ req.op = "register"
    /\ req.dbOk
    /\ req.form.email = EmailAUpper
    /\ req.form.password = req.form.confirm
    /\ \E i \in DOMAIN db : db[i].Email = EmailA
    /\ req.status = StatusBadRequest
    /\ VErr("email", "Email is already taken") \in req.body.details

\* no two rows of the table have the same email, letter case aside
UniqueEmails ==
    \A i \in DOMAIN db, j \in DOMAIN db :
        ToLower(db[i].Email) = ToLower(db[j].Email) => i = j

\* two register calls in progress for one normalised email, neither disturbed
\* by an update written since its validation
Racing(c1, c2) ==
    /\ c1 # c2
    /\ calls[c1].kind = "create" /\ calls[c2].kind = "create"
    /\ calls[c1].pc # "idle" /\ calls[c2].pc # "idle"
    /\ calls[c1].user.Email = calls[c2].user.Email
    /\ calls[c1].clean /\ calls[c2].clean

C20_StoredFieldsNormalized ==
    \A i \in DOMAIN db :
        /\ db[i].Email = ToLower(db[i].Email)
        /\ db[i].Email = TrimSpace(db[i].Email)
        /\ db[i].Name = TrimSpace(db[i].Name)
        /\ db[i].Email # <<>> /\ Head(db[i].Email) # " "
        /\ db[i].Email[Len(db[i].Email)] # " "

\* C20 witness: a row written by an update whose name and email came padded
\* and in capitals holds them trimmed and lowercase, next to a created row
C20_Witness ==
    /\ Cardinality(DOMAIN db) = 2
    /\ \E c \in Clients :
        /\ calls[c].kind = "update"
        /\ calls[c].status = StatusOK
        /\ calls[c].given.email = EmailAUpperPadded
        /\ calls[c].given.name = NamePadded
        /\ db[calls[c].user.ID].Email = EmailA
        /\ db[calls[c].user.ID].Name = NameOk

\* the create or update being answered went through: no validation error, no
\* error of the store or of the hashing
Saved ==
    /\ req.op \in {"create", "update"}
    /\ req.body.details = {}
    /\ ~req.err

\* C21: every row has role user or admin; a create or update with an empty
\* role stores user; one with any other role is refused with a "role"
\* validation error and writes nothing; a registration stores role user.
C21_RoleEnumerated ==
    /\ \A i \in DOMAIN db : db[i].Role \in {RoleUser, RoleAdmin}
    /\ (Saved /\ req.role = "") =>
        /\ req.target \in DOMAIN db
        /\ db[req.target].Role = RoleUser
    /\ (req.op \in {"create", "update"} /\ req.role \notin {"", RoleUser, RoleAdmin}) =>
        /\ VErr("role", "Role must be either 'user' or 'admin'") \in req.body.details
        /\ ~req.err
        /\ req.op = "create" => req.target = NilID
        /\ req.op = "update" => db[req.target] = req.before
    /\ (req.op = "register" /\ req.status = StatusCreated) =>
        /\ req.body.user.role = RoleUser
        /\ db[req.body.user.id].Role = RoleUser

\* C21 witness: an update of an admin with the role left empty went through
\* and the row now has role user
C21_Witness ==
    /\ Saved
    /\ req.op = "update"
    /\ req.role = ""
    /\ req.before.Role = RoleAdmin
    /\ db[req.target].Role = RoleUser

\* a body of POST /auth/register with a fault in a field
Faulty(f) ==
    \/ TrimSpace(f.name) = <<>>
    \/ Len(TrimSpace(f.name)) < NameMin
    \/ Len(TrimSpace(f.name)) > NameMax
    \/ TrimSpace(f.email) = <<>>
    \/ ~emailRegex(ToLower(TrimSpace(f.email)))
    \/ f.password = <<>>
    \/ Len(f.password) < PasswordMin
    \/ Len(f.password) > PasswordMax
    \/ f.password # f.confirm

\* C22: a registration whose name, email, password or confirmation is at
\* fault is answered 400, writes nothing to the table and issues no token,
\* whether or not the store is answering.
C22_FaultyRegistrationRejected ==
    [][(req = Idle /\ req'.op = "register" /\ Faulty(req'.form)) =>
        /\ req'.status = StatusBadRequest
        /\ req'.issue = NoIssue
        /\ db' = db
        /\ issued' = issued]_vars

\* C22 witness: a registration with an empty confirmation was answered 400
\* although every other field was in order
C22_Witness ==
    /\ req.op = "register"
    /\ req.form = Form(NameOk, EmailX, PwGood, <<>>)
    /\ req.status = StatusBadRequest
    /\ req.issue = NoIssue

\* the row written by the create, update or registration being answered, and
\* whether there is one
Written ==
    \/ Saved /\ req.target \in DOMAIN db
    \/ req.op = "register" /\ req.status = StatusCreated
WrittenRow ==
    IF req.op = "register" THEN db[req.body.user.id] ELSE db[req.target]

\* C23: after a user is created or updated with a password p of accepted
\* length, the stored hash is a bcrypt digest and not p, p validates against
\* it, and no other password does.
C23_HashValidatesOnlyItsPassword ==
    (/\ Written
     /\ Len(req.form.password) >= PasswordMin
     /\ Len(req.form.password) <= PasswordMax) =>
        /\ WrittenRow.PasswordHash.alg = "bcrypt"
        /\ WrittenRow.PasswordHash.of # <<>>
        /\ ValidatePassword(Loaded(WrittenRow), req.form.password)
        /\ \A q \in ModelPasswords :
            q # req.form.password => ~ValidatePassword(Loaded(WrittenRow), q)

\* the keys an identity may be rendered with, and keys that would carry a
\* password or its hash
PublicKeys == {"id", "name", "email", "role", "created_at", "updated_at"}
SecretKeys == {"password_hash", "password", "password_confirm"}
Rendered(json) == DOMAIN json \subseteq PublicKeys /\ DOMAIN json \cap SecretKeys = {}

\* C24: the user in the body of every response, the claims of every token in
\* it, and the String() rendering of every stored user and of the list of
\* them carry the public fields only: no password hash, password or
\* confirmation.
C24_NoSecretRendered ==
    /\ Rendered(req.body.user)
    /\ DOMAIN req.body \cap SecretKeys = {}
    /\ \A e \in req.issue : Rendered(e.user)
    /\ req = Idle =>
        \A i \in DOMAIN db :
            /\ Rendered(UserString(Loaded(db[i])))
            /\ Rendered(UsersString(<<Loaded(db[i])>>)[1])

\* C24 witness: a login was answered with the user of a row that holds a
\* bcrypt hash, rendered with its four public fields
C24_Witness ==
    /\ req.op = "login"
    /\ req.status = StatusOK
    /\ req.body.user.id \in DOMAIN db
    /\ db[req.body.user.id].PasswordHash = BcryptHash(req.form.password)
    /\ DOMAIN req.body.user = {"id", "name", "email", "role"}

\* C25: a request during which a call of the store failed (registration,
\* login, or the look-up of the user by the authentication middleware) is
\* answered 500, not 401 or 400.
C25_StoreFailureIsInternalError ==
    (req.op \in {"register", "login", "protected"} /\ ~req.dbOk) =>
        req.status = StatusInternalServerError

\* C26: the readiness probe answers 503, "not_ready", api "not_ready" when
\* SIMULATE_NOT_READY is "true" at the time of the request and 200, "ready",
\* api "ready" for every other value, whatever the earlier answers were.
C26_ReadinessFollowsEnv ==
    [][(req = Idle /\ req'.op = "ready") =>
        IF env = "true"
        THEN /\ req'.status = StatusServiceUnavailable
             /\ req'.health.status = "not_ready"
             /\ req'.health.services.api = "not_ready"
        ELSE /\ req'.status = StatusOK
             /\ req'.health.status = "ready"
             /\ req'.health.services.api = "ready"]_vars

\* C26 witness: the probe answered 503 and the variable has been changed
\* since, so that the next answer will differ
C26_Witness ==
    /\ req.op = "ready"
    /\ req.status = StatusServiceUnavailable
    /\ req.health.services.api = "not_ready"
    /\ env = "TRUE"

\* the arguments of the statements of one kind, in the order App() has them
Declared(op) ==
    LET sel == SelectSeq(AppStatements, LAMBDA st : st.op = op)
    IN  [i \in 1..Len(sel) |-> sel[i].arg]

\* an application with the whole middleware stack and every route, each once
Configured(a) == a.wares = Declared("Use") /\ a.routes = Declared("Route")

\* C30: under every interleaving of the callers of App() one application is
\* built, every call returns that one, non-nil and with the middleware stack
\* and the routes registered once each.
C30_AppBuiltOnce ==
    /\ Len(apps) <= 1
    /\ \A c \in Clients :
        callers[c].returned =>
            /\ callers[c].ret # 0
            /\ callers[c].ret = app
            /\ Configured(apps[callers[c].ret])
    /\ \A c1, c2 \in Clients :
        (callers[c1].returned /\ callers[c2].returned) =>
            callers[c1].ret = callers[c2].ret

\* C30 witness: a caller that found the application unbuilt, waited for the
\* mutex and then found it built, while another caller has been handed it
C30_Witness ==
    \E c1, c2 \in Clients :
        /\ c1 # c2
        /\ callers[c1].pc = "unlock"
        /\ callers[c1].step = 1
        /\ callers[c2].returned
        /\ callers[c2].ret = 1
        /\ Configured(apps[1])

\* the claims of the token the request came with, for a request that passed
\* the authentication middleware
ReqClaims == req.headers.value[3].t.payload

\* C27: a request that passed the authentication middleware is gated by the
\* role the row has in the table at that time and /auth/me answers with the
\* email and the role of the row, whatever the claims of the token say.
C27_StoredRecordDecides ==
    /\ (req.op = "admin" /\ req.ctx.hasUser) =>
        /\ req.handler # "" <=> db[req.ctx.currentUserID].Role = RoleAdmin
        /\ db[req.ctx.currentUserID].Role = RoleUser => req.status = StatusForbidden
    /\ (req.op = "me" /\ req.ctx.hasUser) =>
        /\ req.status = StatusOK
        /\ req.body.user.email = db[req.ctx.currentUserID].Email
        /\ req.body.user.role = db[req.ctx.currentUserID].Role

\* C27 witness: a token issued to an admin, still valid, is answered 403 on
\* an admin route after the role of the row was changed to user
C27_Witness ==
    /\ req.op = "admin"
    /\ req.ctx.hasUser
    /\ ReqClaims.Role = RoleAdmin
    /\ req.headers.value[3].t \in Held
    /\ db[req.ctx.currentUserID].Role = RoleUser
    /\ req.status = StatusForbidden

\* C28: after an update that passed validation with a password of
\* accepted length that is not the one of the row, the stored hash has
\* changed, the new password validates and no password that validated before
\* still does; after one with an empty password the hash is as it was.
C28_UpdateRehashes ==
    (/\ req.op = "update"
     /\ req.body.details = {}) =>
        /\ (/\ req.form.password # <<>>
            /\ ~ValidatePassword(Loaded(req.before), req.form.password)) =>
                /\ db[req.target].PasswordHash # req.before.PasswordHash
                /\ ValidatePassword(Loaded(db[req.target]), req.form.password)
                /\ \A q \in ModelPasswords :
                    ValidatePassword(Loaded(req.before), q) =>
                        ~ValidatePassword(Loaded(db[req.target]), q)
        /\ req.form.password = <<>> =>
                db[req.target].PasswordHash = req.before.PasswordHash

\* C29: a login, a request to /auth/me, /auth/refresh or /api/v1/profile and
\* a request to an admin route, answered by the handler or by the
\* authentication or the admin middleware, leave the users table as it was;
\* a login that is not answered 200 issues no token.
C29_ReadOnlyRequests ==
    [][(req = Idle /\ req'.op \in {"login", "protected", "admin"}) =>
        /\ db' = db
        /\ nextId' = nextId
        /\ (req'.op = "login" /\ req'.status # StatusOK) =>
            /\ issued' = issued
            /\ req'.issue = NoIssue
            /\ req'.body.token = NoToken]_vars

\* C29 witness: a login with a wrong password for a registered email was
\* answered 401 and the row is in the table
C29_Witness ==
    /\ req.op = "login"
    /\ req.status = StatusUnauthorized
    /\ req.form.password = PwOther
    /\ WhereEmail(db, req.form.email) # {}
    /\ req.issue = NoIssue

====
